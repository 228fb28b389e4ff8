--------------------------- MODULE KidoSyncProofs ---------------------------
(***************************************************************************)
(* Proofs about KidoSync, for any number of forked folders, clones, runs,  *)
(* commits and upstream versions.                                          *)
(***************************************************************************)
EXTENDS KidoSync, WellFoundedInduction, TLAPS

\* Every nonempty set of natural numbers has a least element.
LEMMA LeastNat ==
    ASSUME NEW S \in SUBSET Nat, S # {}
    PROVE  \E n \in S : \A m \in S : n <= m
<1>. DEFINE R == {ss \in Nat \X Nat : ss[1] < ss[2]}
<1>1. IsWellFoundedOn(R, Nat)
    BY NatLessThanWellFounded, Zenon DEF OpToRel
<1>2. PICK n \in S : \A m \in S : ~ (<<m, n>> \in R)
    <2>. HIDE DEF R
    <2>. QED BY <1>1, WFMin, Zenon
<1>3. \A m \in S : ~ (m < n)
    BY <1>2, Zenon
<1>4. \A m \in S : m \in Nat /\ n \in Nat
    OBVIOUS
<1>. QED BY <1>3, <1>4

(***************************************************************************)
(* The history of a commit.                                                *)
(***************************************************************************)
\* One step of the recursion of Reachable.
Reached(cs, reach, c) ==
    IF c = 0 THEN {} ELSE {c} \cup reach[cs[c].first] \cup
        (IF Len(cs[c].second) = 1 THEN reach[cs[c].second[1]] ELSE {})

\* Reachable is what its recursive definition says, since the parents of a
\* commit were made before it.
LEMMA ReachableEquation ==
    ASSUME NEW cs \in Seq(Commit), Grown(cs)
    PROVE  Reachable(cs) = [c \in 0 .. Len(cs) |-> Reached(cs, Reachable(cs), c)]
<1>. DEFINE P(n) == \E f : f = [c \in 0 .. n |-> Reached(cs, f, c)]
            Bad == {n \in 0 .. Len(cs) : ~P(n)}
<1>0. Len(cs) \in Nat
    OBVIOUS
<1>1. Bad = {}
    <2>. SUFFICES ASSUME Bad # {} PROVE FALSE
        OBVIOUS
    <2>1. PICK n \in Bad : \A m \in Bad : n <= m
        <3>. HIDE DEF P
        <3>1. Bad \in SUBSET Nat
            BY <1>0
        <3>. HIDE DEF Bad
        <3>. QED BY <3>1, LeastNat, Zenon
    <2>2. n \in 0 .. Len(cs) /\ ~P(n)
        OBVIOUS
    <2>3. CASE n = 0
        <3>. DEFINE f == [c \in 0 .. 0 |-> {}]
        <3>1. f = [c \in 0 .. 0 |-> Reached(cs, f, c)]
            BY DEF Reached
        <3>. HIDE DEF f
        <3>2. P(0)
            BY <3>1, Zenon
        <3>. HIDE DEF P
        <3>. QED BY <2>2, <2>3, <3>2, Zenon
    <2>4. CASE n # 0
        <3>1. n - 1 \in 0 .. Len(cs) /\ ~(n <= n - 1)
            BY <1>0, <2>2, <2>4
        <3>2. P(n - 1)
            <4>. HIDE DEF P
            <4>. QED BY <2>1, <3>1, Zenon
        <3>3. PICK g : g = [c \in 0 .. (n - 1) |-> Reached(cs, g, c)]
            BY <3>2, Zenon
        <3>. DEFINE f == [c \in 0 .. n |-> IF c = n THEN Reached(cs, g, n) ELSE g[c]]
        <3>4. \A c \in 0 .. n : f[c] = Reached(cs, f, c)
            <4>1. \A c \in 0 .. (n - 1) : f[c] = g[c]
                BY <2>2, <1>0
            <4>2. \A c \in 0 .. n : Reached(cs, f, c) = Reached(cs, g, c)
                <5>. TAKE c \in 0 .. n
                <5>. HIDE DEF f
                <5>1. CASE c = 0
                    BY <5>1, Zenon DEF Reached
                <5>2. CASE c # 0
                    <6>1. c \in 1 .. Len(cs)
                        BY <5>2, <2>2, <1>0
                    <6>2. cs[c].first \in 0 .. (n - 1)
                        BY <6>1, <2>2, <1>0 DEF Grown
                    <6>3. Len(cs[c].second) = 1 => cs[c].second[1] \in 0 .. (n - 1)
                        BY <6>1, <2>2, <1>0 DEF Grown
                    <6>. QED BY <6>2, <6>3, <4>1, Zenon DEF Reached
                <5>. QED BY <5>1, <5>2, Zenon
            <4>3. \A c \in 0 .. n : f[c] = Reached(cs, g, c)
                <5>. TAKE c \in 0 .. n
                <5>1. CASE c = n
                    BY <5>1, <2>2, <1>0, Zenon
                <5>2. CASE c # n
                    <6>1. c \in 0 .. (n - 1)
                        BY <5>2, <2>2, <1>0
                    <6>2. g[c] = Reached(cs, g, c)
                        BY <6>1, <3>3, Zenon
                    <6>. QED BY <6>1, <6>2, <4>1, Zenon
                <5>. QED BY <5>1, <5>2, Zenon
            <4>. QED BY <4>2, <4>3, Zenon
        <3>5. f = [c \in 0 .. n |-> Reached(cs, f, c)]
            <4>1. f = [c \in 0 .. n |-> f[c]]
                OBVIOUS
            <4>. HIDE DEF f
            <4>. QED BY <3>4, <4>1, Zenon
        <3>. HIDE DEF f
        <3>6. P(n)
            BY <3>5, Zenon
        <3>. HIDE DEF P
        <3>. QED BY <2>2, <3>6, Zenon
    <2>. QED BY <2>3, <2>4, Zenon
<1>2. P(Len(cs))
    <2>. HIDE DEF P
    <2>. QED BY <1>0, <1>1
<1>3. Reachable(cs) = CHOOSE f : f = [c \in 0 .. Len(cs) |-> Reached(cs, f, c)]
    BY Zenon DEF Reachable, Reached
<1>. QED BY <1>2, <1>3, Zenon

\* The value of Reachable at one commit.
LEMMA ReachableAt ==
    ASSUME NEW cs \in Seq(Commit), Grown(cs), NEW c \in 0 .. Len(cs)
    PROVE  Reachable(cs)[c] = Reached(cs, Reachable(cs), c)
<1>. HIDE DEF Reached
<1>. QED BY ReachableEquation, Zenon

\* A history holds the commit itself and otherwise earlier commits only.
LEMMA ReachableEarlier ==
    ASSUME NEW cs \in Seq(Commit), Grown(cs), NEW c \in 0 .. Len(cs)
    PROVE  Reachable(cs)[c] \subseteq 1 .. c /\ (c # 0 => c \in Reachable(cs)[c])
<1>. DEFINE Ok(n) == Reachable(cs)[n] \subseteq 1 .. n
            Bad == {n \in 0 .. Len(cs) : ~Ok(n)}
<1>0. Len(cs) \in Nat
    OBVIOUS
<1>1. Bad = {}
    <2>. SUFFICES ASSUME Bad # {} PROVE FALSE
        OBVIOUS
    <2>1. PICK n \in Bad : \A m \in Bad : n <= m
        <3>. HIDE DEF Ok
        <3>1. Bad \in SUBSET Nat
            BY <1>0
        <3>. HIDE DEF Bad
        <3>. QED BY <3>1, LeastNat, Zenon
    <2>2. n \in 0 .. Len(cs) /\ ~Ok(n)
        OBVIOUS
    <2>3. \A m \in 0 .. (n - 1) : Ok(m)
        <3>. HIDE DEF Ok
        <3>. QED BY <2>1, <2>2, <1>0
    <2>4. Reachable(cs)[n] = Reached(cs, Reachable(cs), n)
        BY <2>2, ReachableAt, Zenon
    <2>5. CASE n = 0
        BY <2>2, <2>4, <2>5, Zenon DEF Reached
    <2>6. CASE n # 0
        <3>1. n \in 1 .. Len(cs)
            BY <2>2, <2>6, <1>0
        <3>2. cs[n].first \in 0 .. (n - 1)
            BY <3>1, Zenon DEF Grown
        <3>3. Len(cs[n].second) = 1 => cs[n].second[1] \in 0 .. (n - 1)
            BY <3>1, Zenon DEF Grown
        <3>4. Reachable(cs)[cs[n].first] \subseteq 1 .. n
            BY <3>1, <3>2, <2>3
        <3>5. Len(cs[n].second) = 1 => Reachable(cs)[cs[n].second[1]] \subseteq 1 .. n
            BY <3>1, <3>3, <2>3
        <3>6. n \in 1 .. n
            BY <3>1
        <3>. QED BY <2>2, <2>4, <2>6, <3>4, <3>5, <3>6, Zenon DEF Reached
    <2>. QED BY <2>5, <2>6, Zenon
<1>2. Ok(c)
    <2>. HIDE DEF Ok
    <2>. QED BY <1>1, Zenon
<1>3. c # 0 => c \in Reachable(cs)[c]
    <2>1. Reachable(cs)[c] = Reached(cs, Reachable(cs), c)
        BY ReachableAt, Zenon
    <2>. QED BY <2>1, Zenon DEF Reached
<1>. QED BY <1>2, <1>3, Zenon

\* A new commit leaves the histories of the others as they are.
LEMMA ReachableAppend ==
    ASSUME NEW cs \in Seq(Commit), Grown(cs), NEW x \in Commit, Grown(Append(cs, x)),
           NEW c \in 0 .. Len(cs)
    PROVE  Reachable(Append(cs, x))[c] = Reachable(cs)[c]
<1>. DEFINE ds == Append(cs, x)
            Ok(n) == Reachable(ds)[n] = Reachable(cs)[n]
            Bad == {n \in 0 .. Len(cs) : ~Ok(n)}
<1>0. /\ Len(cs) \in Nat /\ ds \in Seq(Commit) /\ Len(ds) = Len(cs) + 1
      /\ \A n \in 1 .. Len(cs) : ds[n] = cs[n]
    OBVIOUS
<1>. HIDE DEF ds
<1>1. Bad = {}
    <2>. SUFFICES ASSUME Bad # {} PROVE FALSE
        OBVIOUS
    <2>1. PICK n \in Bad : \A m \in Bad : n <= m
        <3>. HIDE DEF Ok
        <3>1. Bad \in SUBSET Nat
            BY <1>0
        <3>. HIDE DEF Bad
        <3>. QED BY <3>1, LeastNat, Zenon
    <2>2. n \in 0 .. Len(cs) /\ n \in 0 .. Len(ds) /\ ~Ok(n)
        BY <1>0
    <2>3. \A m \in 0 .. (n - 1) : Ok(m)
        <3>. HIDE DEF Ok
        <3>. QED BY <2>1, <2>2, <1>0
    <2>4. Reachable(cs)[n] = Reached(cs, Reachable(cs), n)
        BY <2>2, ReachableAt, Zenon
    <2>5. Reachable(ds)[n] = Reached(ds, Reachable(ds), n)
        <3>1. Grown(ds)
            BY Zenon DEF ds
        <3>. QED BY <1>0, <2>2, <3>1, ReachableAt, Zenon
    <2>6. CASE n = 0
        BY <2>2, <2>4, <2>5, <2>6, Zenon DEF Reached
    <2>7. CASE n # 0
        <3>1. n \in 1 .. Len(cs) /\ ds[n] = cs[n]
            BY <2>2, <2>7, <1>0
        <3>2. cs[n].first \in 0 .. (n - 1)
            BY <3>1, Zenon DEF Grown
        <3>3. Len(cs[n].second) = 1 => cs[n].second[1] \in 0 .. (n - 1)
            BY <3>1, Zenon DEF Grown
        <3>. QED BY <2>2, <2>3, <2>4, <2>5, <3>1, <3>2, <3>3, Zenon DEF Reached
    <2>. QED BY <2>6, <2>7, Zenon
<1>2. Ok(c)
    <2>. HIDE DEF Ok
    <2>. QED BY <1>1, Zenon
<1>. QED BY <1>2, Zenon DEF ds

(***************************************************************************)
(* What the steps of a clone have in common.                               *)
(***************************************************************************)
\* No error was returned and no worktree kept: then none is left behind.
Clean(r) ==
    (run[r].pc = "idle" /\ ~run[r].err /\ ~run[r].persist) =>
        ~run[r].worktree.dir /\ ~run[r].worktree.added

\* A step that makes no commit keeps the invariant, if what its clone has in
\* hand and what it pushes are as they should be.
LEMMA LocalStep ==
    ASSUME IInv, NEW r \in Runners, TypeOK', UNCHANGED <<commits, main, upstream>>,
           \A s \in Runners \ {r} : run'[s] = run[s] /\ origin'[s] = origin[s],
           origin'[r].base \in History[main], Prepared(r)', Clean(r)',
           \A p \in Projects : remote'[p] = remote[p] \/ SyncHead(p, remote'[p])
    PROVE  IInv'
<1>1. OnlyItsFolder'
    <2>. SUFFICES ASSUME NEW p \in Projects, remote'[p] # 0
                  PROVE  SyncHead(p, remote[p])'
        BY Zenon DEF OnlyItsFolder
    <2>1. SyncHead(p, remote'[p])
        BY Zenon DEF IInv, OnlyItsFolder
    <2>. QED BY <2>1, Zenon DEF SyncHead, History, Tree
<1>2. SuccessMeansClean'
    BY Zenon DEF IInv, SuccessMeansClean, Clean
<1>3. Grown(commits)'
    BY Zenon DEF IInv
<1>4. (\A c \in DOMAIN commits, p \in Projects : Tree(c)[p] <= upstream[p])'
    BY Zenon DEF IInv, Tree
<1>5. ASSUME NEW s \in Runners
      PROVE  (origin[s].base \in History[main] /\ Prepared(s))'
    <2>1. CASE s = r
        BY <2>1, Zenon DEF History
    <2>2. CASE s # r
        <3>1. run'[s] = run[s] /\ origin'[s] = origin[s]
            BY <2>2, Zenon
        <3>2. origin[s].base \in History[main] /\ Prepared(s)
            BY Zenon DEF IInv
        <3>. QED BY <3>1, <3>2, Zenon DEF Prepared, Project, SyncHead, History, Tree
    <2>. QED BY <2>1, <2>2, Zenon
<1>. QED BY <1>1, <1>2, <1>3, <1>4, <1>5, Zenon DEF IInv

\* The places of the commits, and the fields of one of them.
LEMMA CommitTyped ==
    ASSUME TypeOK, NEW c \in DOMAIN commits
    PROVE  /\ commits[c] \in Commit /\ c \in Nat \ {0}
           /\ commits[c].first \in Nat /\ commits[c].second \in Second
           /\ commits[c].tree \in [Projects -> Nat]
<1>1. commits \in Seq(Commit)
    BY Zenon DEF TypeOK
<1>2. commits[c] \in Commit /\ c \in Nat \ {0}
    BY <1>1
<1>. QED BY <1>2, Zenon DEF Commit

\* A branch is absent or names a commit.
LEMMA RemoteTyped ==
    ASSUME TypeOK, NEW p \in Projects
    PROVE  /\ commits \in Seq(Commit) /\ Len(commits) \in Nat
           /\ DOMAIN commits = 1 .. Len(commits)
           /\ remote[p] \in Nat /\ (remote[p] # 0 => remote[p] \in DOMAIN commits)
<1>1. commits \in Seq(Commit) /\ remote[p] \in 0 .. Len(commits)
    BY Zenon DEF TypeOK
<1>2. Len(commits) \in Nat /\ DOMAIN commits = 1 .. Len(commits)
    BY <1>1
<1>. QED BY <1>1, <1>2

\* The branches of the remote, as a map.
LEMMA RemoteMap ==
    ASSUME TypeOK
    PROVE  remote \in [Projects -> Nat]
<1>1. commits \in Seq(Commit) /\ remote \in [Projects -> 0 .. Len(commits)]
    BY Zenon DEF TypeOK
<1>2. 0 .. Len(commits) \subseteq Nat
    BY <1>1
<1>. QED BY <1>1, <1>2, Zenon

\* A step that changes only what its clone is doing.
LEMMA RunTyped ==
    ASSUME TypeOK, NEW r \in Runners, NEW x \in Run, run' = [run EXCEPT ![r] = x],
           x.pc \notin {"idle", "cleanup"} => x.todo # <<>>,
           UNCHANGED <<commits, main, upstream, remote, prs, origin>>
    PROVE  TypeOK'
<1>1. run' \in [Runners -> Run]
    BY Zenon DEF TypeOK
<1>2. \A s \in Runners : run'[s].pc \notin {"idle", "cleanup"} => run'[s].todo # <<>>
    BY Zenon DEF TypeOK
<1>. QED BY <1>1, <1>2, Zenon DEF TypeOK

\* A step that changes only what its clone is doing, and leaves the clone with
\* what its next command needs.
LEMMA RunStep ==
    ASSUME IInv, NEW r \in Runners, NEW x \in Run, run' = [run EXCEPT ![r] = x],
           x.pc \notin {"idle", "cleanup"} => x.todo # <<>>,
           UNCHANGED <<commits, main, upstream, remote, prs, origin>>,
           Prepared(r)', Clean(r)'
    PROVE  IInv'
<1>1. TypeOK /\ origin[r].base \in History[main]
    BY Zenon DEF IInv
<1>2. TypeOK'
    BY <1>1, RunTyped, Zenon
<1>3. \A s \in Runners \ {r} : run'[s] = run[s] /\ origin'[s] = origin[s]
    BY <1>1, Zenon DEF TypeOK
<1>4. origin'[r].base \in History[main]
    BY <1>1, Zenon
<1>5. \A p \in Projects : remote'[p] = remote[p]
    OBVIOUS
<1>. QED BY <1>2, <1>3, <1>4, <1>5, LocalStep, Zenon

\* The records a clone starts from and ends with.
LEMMA EndedTyped ==
    ASSUME TypeOK, NEW r \in Runners, NEW err \in BOOLEAN, NEW w \in Worktree
    PROVE  /\ Resting \in Run
           /\ Ended(r, err, w) \in Run /\ Ended(r, err, w).pc = "idle"
           /\ Ended(r, err, w).err = err /\ Ended(r, err, w).persist = run[r].persist
           /\ Ended(r, err, w).worktree.dir = w.dir /\ Ended(r, err, w).worktree.added = w.added
<1>1. NoWorktree \in Worktree /\ <<>> \in Seq(Projects)
    BY DEF NoWorktree, Worktree
<1>2. Resting \in Run
    BY <1>1, Zenon DEF Resting, Run, Steps
<1>3. run[r].persist \in BOOLEAN
    BY Zenon DEF TypeOK, Run
<1>4. [w EXCEPT !.head = 0] \in Worktree
    BY Zenon DEF Worktree
<1>5. Ended(r, err, w) \in Run
    BY <1>2, <1>3, <1>4, Zenon DEF Ended, Run
<1>. QED BY <1>2, <1>5, Zenon DEF Ended, Resting, Worktree

\* The process dies or returns an error.
LEMMA FailedTyped ==
    ASSUME TypeOK, NEW r \in Runners
    PROVE  Failed(r) \in Run /\ Failed(r).pc = "idle" /\ Failed(r).err = TRUE
<1>1. run[r].worktree \in Worktree
    BY Zenon DEF TypeOK, Run
<1>. QED BY <1>1, EndedTyped, Zenon DEF Failed

\* An error, or the death of the process, at any point of a run.
LEMMA FailedStep ==
    ASSUME IInv, NEW r \in Runners, run' = [run EXCEPT ![r] = Failed(r)],
           UNCHANGED <<commits, main, upstream, remote, prs, origin>>
    PROVE  IInv'
<1>1. TypeOK
    BY Zenon DEF IInv
<1>2. Failed(r) \in Run /\ Failed(r).pc = "idle" /\ Failed(r).err = TRUE
    BY <1>1, FailedTyped, Zenon
<1>3. run'[r] = Failed(r)
    BY <1>1, Zenon DEF TypeOK
<1>4. Prepared(r)' /\ Clean(r)'
    BY <1>2, <1>3, Zenon DEF Prepared, Clean
<1>. QED BY <1>2, <1>4, RunStep, Zenon

(***************************************************************************)
(* Starting a run, and sync-branch up to the pull.                         *)
(***************************************************************************)
\* kido sync branch starts: the projects are resolved and none is under way.
LEMMA RunSyncBranchIInv ==
    ASSUME IInv, NEW r \in Runners, NEW arg \in Projects \cup {"all"}, NEW f \in Flags,
           RunSyncBranch(r, arg, f[1], f[2])
    PROVE  IInv'
<1>. DEFINE x == [Resting EXCEPT !.pc = "fetch", !.all = (arg = "all"),
                                 !.todo = ResolveProjects(arg), !.push = f[1], !.persist = f[2]]
<1>1. TypeOK /\ f[1] \in BOOLEAN /\ f[2] \in BOOLEAN
    BY SyncAssumption, Zenon DEF IInv
<1>2. ResolveProjects(arg) \in Seq(Projects) /\ ResolveProjects(arg) # <<>>
    BY SyncAssumption DEF ResolveProjects
<1>3. Resting \in Run
    <2>1. NoWorktree \in Worktree
        BY Zenon DEF NoWorktree, Worktree
    <2>. QED BY <1>1, <2>1, EndedTyped, Zenon
<1>4. x \in Run /\ x.pc = "fetch" /\ x.todo # <<>>
    BY <1>1, <1>2, <1>3, Zenon DEF Run, Steps
<1>5. run' = [run EXCEPT ![r] = x] /\ UNCHANGED <<commits, main, upstream, remote, prs, origin>>
    BY Zenon DEF RunSyncBranch, GitHub
<1>. HIDE DEF x
<1>6. run'[r] = x
    BY <1>1, <1>5, Zenon DEF TypeOK
<1>7. Prepared(r)' /\ Clean(r)'
    BY <1>4, <1>6, Zenon DEF Prepared, Clean
<1>. QED BY <1>4, <1>5, <1>7, RunStep, Zenon

\* kido sync pr starts: the projects are resolved and none is under way.
LEMMA RunSyncPRIInv ==
    ASSUME IInv, NEW r \in Runners, NEW arg \in Projects \cup {"all"}, RunSyncPR(r, arg)
    PROVE  IInv'
<1>. DEFINE x == [Resting EXCEPT !.pc = "pr fetch", !.all = (arg = "all"),
                                 !.todo = ResolveProjects(arg)]
<1>1. TypeOK
    BY Zenon DEF IInv
<1>2. ResolveProjects(arg) \in Seq(Projects) /\ ResolveProjects(arg) # <<>>
    BY SyncAssumption DEF ResolveProjects
<1>3. Resting \in Run
    <2>1. NoWorktree \in Worktree
        BY Zenon DEF NoWorktree, Worktree
    <2>. QED BY <1>1, <2>1, EndedTyped, Zenon
<1>4. x \in Run /\ x.pc = "pr fetch" /\ x.todo # <<>>
    BY <1>2, <1>3, Zenon DEF Run, Steps
<1>5. run' = [run EXCEPT ![r] = x] /\ UNCHANGED <<commits, main, upstream, remote, prs, origin>>
    BY Zenon DEF RunSyncPR, GitHub
<1>. HIDE DEF x
<1>6. run'[r] = x
    BY <1>1, <1>5, Zenon DEF TypeOK
<1>7. Prepared(r)' /\ Clean(r)'
    BY <1>4, <1>6, Zenon DEF Prepared, Clean
<1>. QED BY <1>4, <1>5, <1>7, RunStep, Zenon

\* The head of the base branch, and what lies behind it.
LEMMA MainReached ==
    ASSUME IInv
    PROVE  main \in History[main] /\ History[main] \subseteq DOMAIN commits
<1>1. commits \in Seq(Commit) /\ Grown(commits) /\ main \in 1 .. Len(commits)
    BY DEF IInv, TypeOK
<1>2. main \in 0 .. Len(commits) /\ main # 0 /\ Len(commits) \in Nat
    BY <1>1
<1>3. Reachable(commits)[main] \subseteq 1 .. main /\ main \in Reachable(commits)[main]
    BY <1>1, <1>2, ReachableEarlier, Zenon
<1>4. 1 .. main \subseteq DOMAIN commits
    BY <1>1, <1>2
<1>. QED BY <1>3, <1>4, Zenon DEF History

\* A run that is working on a project has one.
LEMMA ProjectTyped ==
    ASSUME TypeOK, NEW r \in Runners, run[r].pc \notin {"idle", "cleanup"}
    PROVE  run[r] \in Run /\ run[r].todo # <<>> /\ Project(r) \in Projects
<1>1. run[r] \in Run /\ run[r].todo # <<>>
    BY Zenon DEF TypeOK
<1>2. run[r].todo \in Seq(Projects)
    BY <1>1, Zenon DEF Run
<1>. QED BY <1>1, <1>2 DEF Project

\* The remote-tracking ref of the base branch.
LEMMA BaseTyped ==
    ASSUME TypeOK, NEW r \in Runners
    PROVE  origin[r].base \in Nat
<1>1. commits \in Seq(Commit) /\ origin[r].base \in DOMAIN commits
    BY Zenon DEF TypeOK
<1>. QED BY <1>1

\* git fetch of the base: the clone's base becomes the remote's.
LEMMA FetchBaseIInv ==
    ASSUME IInv, NEW r \in Runners, FetchBase(r)
    PROVE  IInv'
<1>1. TypeOK /\ run[r] \in Run /\ run[r].pc = "fetch" /\ run[r].todo # <<>>
    BY Zenon DEF IInv, TypeOK, FetchBase, At
<1>. DEFINE x == [run[r] EXCEPT !.pc = "worktree"]
<1>2. x \in Run /\ x.pc = "worktree" /\ x.todo # <<>>
    BY <1>1, Zenon DEF Run, Steps
<1>3. run' = [run EXCEPT ![r] = x] /\ origin' = [origin EXCEPT ![r].base = main]
      /\ UNCHANGED <<commits, main, upstream, remote, prs>>
    BY Zenon DEF FetchBase, GitHub
<1>. HIDE DEF x
<1>4. run' \in [Runners -> Run] /\ run'[r] = x /\ \A s \in Runners \ {r} : run'[s] = run[s]
    BY <1>1, <1>2, <1>3, Zenon DEF TypeOK
<1>5. /\ origin' \in [Runners -> [base : DOMAIN commits, sync : [Projects -> 0 .. Len(commits)]]]
      /\ origin'[r].base = main /\ \A s \in Runners \ {r} : origin'[s] = origin[s]
    BY <1>1, <1>3, Zenon DEF TypeOK
<1>6. TypeOK'
    BY <1>1, <1>2, <1>3, <1>4, <1>5, Zenon DEF TypeOK
<1>7. Prepared(r)' /\ Clean(r)'
    BY <1>2, <1>4, Zenon DEF Prepared, Clean
<1>8. origin'[r].base \in History[main]
    BY <1>5, MainReached, Zenon
<1>9. \A p \in Projects : remote'[p] = remote[p]
    BY <1>3, Zenon
<1>. QED BY <1>3, <1>4, <1>5, <1>6, <1>7, <1>8, <1>9, LocalStep, Zenon

\* createSyncWorktree: the worktree is made at the clone's base.
LEMMA CreateSyncWorktreeIInv ==
    ASSUME IInv, NEW r \in Runners, CreateSyncWorktree(r)
    PROVE  IInv'
<1>0. origin[r].base \in Nat
    BY BaseTyped, Zenon DEF IInv
<1>1. TypeOK /\ run[r] \in Run /\ run[r].pc = "worktree" /\ run[r].todo # <<>>
    BY Zenon DEF IInv, TypeOK, CreateSyncWorktree, At
<1>. DEFINE w == [dir |-> TRUE, added |-> TRUE, head |-> origin[r].base]
            x == [run[r] EXCEPT !.pc = "reset", !.worktree = w]
<1>2. x \in Run /\ x.pc = "reset" /\ x.todo # <<>>
    BY <1>0, <1>1, Zenon DEF Run, Steps, Worktree
<1>3. run' = [run EXCEPT ![r] = x] /\ UNCHANGED <<commits, main, upstream, remote, prs, origin>>
    BY Zenon DEF CreateSyncWorktree, GitHub
<1>. HIDE DEF x
<1>4. run'[r] = x
    BY <1>1, <1>3, Zenon DEF TypeOK
<1>5. Prepared(r)' /\ Clean(r)'
    BY <1>2, <1>4, Zenon DEF Prepared, Clean
<1>. QED BY <1>2, <1>3, <1>5, RunStep, Zenon

\* createSyncWorktree fails, and its own clean-up leaves some of it behind.
LEMMA CreateSyncWorktreeFailsIInv ==
    ASSUME IInv, NEW r \in Runners, CreateSyncWorktreeFails(r)
    PROVE  IInv'
<1>1. TypeOK
    BY Zenon DEF IInv
<1>2. PICK dir \in BOOLEAN, added \in BOOLEAN :
          run' = [run EXCEPT ![r] = Ended(r, TRUE, [NoWorktree EXCEPT !.dir = dir, !.added = added])]
    BY Zenon DEF CreateSyncWorktreeFails
<1>. DEFINE w == [NoWorktree EXCEPT !.dir = dir, !.added = added]
            x == Ended(r, TRUE, w)
<1>3. w \in Worktree
    BY Zenon DEF NoWorktree, Worktree
<1>4. x \in Run /\ x.pc = "idle" /\ x.err = TRUE
    <2>. HIDE DEF w
    <2>1. TRUE \in BOOLEAN
        OBVIOUS
    <2>2. PICK e \in BOOLEAN, u \in Worktree : e = TRUE /\ u = w
        BY <1>3, <2>1, Zenon
    <2>3. Ended(r, e, u) \in Run /\ Ended(r, e, u).pc = "idle" /\ Ended(r, e, u).err = e
        BY <1>1, <2>2, EndedTyped, Zenon
    <2>. QED BY <2>2, <2>3, Zenon
<1>5. UNCHANGED <<commits, main, upstream, remote, prs, origin>>
    BY Zenon DEF CreateSyncWorktreeFails, GitHub
<1>. HIDE DEF x
<1>6. run' = [run EXCEPT ![r] = x] /\ run'[r] = x
    BY <1>1, <1>2, Zenon DEF TypeOK, x
<1>7. Prepared(r)' /\ Clean(r)'
    BY <1>4, <1>6, Zenon DEF Prepared, Clean
<1>. QED BY <1>4, <1>5, <1>6, <1>7, RunStep, Zenon

\* resetWorktreeToBase puts the worktree back on the base before the pull.
LEMMA PrepareBranchIInv ==
    ASSUME IInv, NEW r \in Runners, PrepareBranch(r)
    PROVE  IInv'
<1>0. origin[r].base \in Nat
    BY BaseTyped, Zenon DEF IInv
<1>1. TypeOK /\ run[r] \in Run /\ run[r].pc = "reset" /\ run[r].todo # <<>>
      /\ origin[r].base \in History[main]
    BY Zenon DEF IInv, TypeOK, PrepareBranch, At
<1>. DEFINE x == [run[r] EXCEPT !.pc = "pull", !.worktree.head = origin[r].base]
<1>2. x \in Run /\ x.pc = "pull" /\ x.todo # <<>> /\ x.worktree.head = origin[r].base
    BY <1>0, <1>1, Zenon DEF Run, Steps, Worktree
<1>3. run' = [run EXCEPT ![r] = x] /\ UNCHANGED <<commits, main, upstream, remote, prs, origin>>
    BY Zenon DEF PrepareBranch, GitHub
<1>. HIDE DEF x
<1>4. run'[r] = x
    BY <1>1, <1>3, Zenon DEF TypeOK
<1>5. Prepared(r)' /\ Clean(r)'
    BY <1>1, <1>2, <1>3, <1>4, Zenon DEF Prepared, Clean, History
<1>. QED BY <1>2, <1>3, <1>5, RunStep, Zenon

(***************************************************************************)
(* New commits.                                                            *)
(***************************************************************************)
\* A commit on top of one that exists, the base branch left alone or moved from
\* the parent to the commit: histories only grow, and what was a head for a
\* sync branch still is.
LEMMA NewCommit ==
    ASSUME IInv, NEW x \in Commit, x.first \in DOMAIN commits,
           Len(x.second) = 1 => x.second[1] \in DOMAIN commits,
           commits' = Append(commits, x),
           main' = main \/ (main' = Len(commits) + 1 /\ x.first = main)
    PROVE  /\ commits' \in Seq(Commit) /\ Len(commits') = Len(commits) + 1
           /\ main' \in DOMAIN commits'
           /\ \A c \in DOMAIN commits : c \in DOMAIN commits' /\ commits'[c] = commits[c]
           /\ commits'[Len(commits) + 1] = x
           /\ Grown(commits')
           /\ History[main] \subseteq (History[main])'
           /\ \A p \in Projects, h \in DOMAIN commits : SyncHead(p, h) => SyncHead(p, h)'
<1>1. commits \in Seq(Commit) /\ Len(commits) \in Nat /\ main \in DOMAIN commits
      /\ DOMAIN commits = 1 .. Len(commits) /\ Grown(commits)
    BY DEF IInv, TypeOK
<1>2. commits' \in Seq(Commit) /\ Len(commits') = Len(commits) + 1
      /\ DOMAIN commits' = 1 .. (Len(commits) + 1)
    BY <1>1
<1>3. \A c \in DOMAIN commits : c \in DOMAIN commits' /\ commits'[c] = commits[c]
    BY <1>1, <1>2
<1>4. commits'[Len(commits) + 1] = x
    BY <1>1
<1>5. main' \in DOMAIN commits'
    BY <1>1, <1>2
<1>6. Grown(commits')
    <2>. SUFFICES ASSUME NEW c \in 1 .. Len(commits')
                  PROVE  /\ commits'[c].first \in 0 .. (c - 1)
                         /\ Len(commits'[c].second) = 1 => commits'[c].second[1] \in 0 .. (c - 1)
        BY Zenon DEF Grown
    <2>1. CASE c = Len(commits) + 1
        BY <1>1, <1>4, <2>1
    <2>2. CASE c # Len(commits) + 1
        <3>1. c \in 1 .. Len(commits) /\ commits'[c] = commits[c]
            BY <1>1, <1>2, <1>3, <2>2
        <3>. QED BY <1>1, <3>1, Zenon DEF Grown
    <2>. QED BY <2>1, <2>2, Zenon
<1>7. \A c \in 0 .. Len(commits) : Reachable(commits')[c] = Reachable(commits)[c]
    BY <1>1, <1>6, ReachableAppend, Zenon
<1>8. Reachable(commits)[main] \subseteq Reachable(commits')[main']
    <2>0. main \in 0 .. Len(commits)
        BY <1>1
    <2>1. CASE main' = main
        BY <1>7, <2>0, <2>1, Zenon
    <2>2. CASE main' = Len(commits) + 1 /\ x.first = main
        <3>1. main' \in 0 .. Len(commits') /\ main' # 0
            BY <1>1, <1>2, <2>2
        <3>2. Reachable(commits')[main'] = Reached(commits', Reachable(commits'), main')
            BY <1>2, <1>6, <3>1, ReachableAt, Zenon
        <3>3. Reachable(commits')[commits'[main'].first] \subseteq Reachable(commits')[main']
            BY <3>1, <3>2, Zenon DEF Reached
        <3>. QED BY <1>4, <1>7, <2>0, <2>2, <3>3, Zenon
    <2>. QED BY <2>1, <2>2, Zenon
<1>9. History[main] \subseteq (History[main])'
    BY <1>8, Zenon DEF History
<1>10. ASSUME NEW p \in Projects, NEW h \in DOMAIN commits, SyncHead(p, h)
       PROVE  SyncHead(p, h)'
    <2>1. commits'[h] = commits[h]
        BY <1>3, Zenon
    <2>2. CASE h \in History[main]
        BY <1>9, <2>2, Zenon DEF SyncHead
    <2>3. CASE h \notin History[main]
        <3>1. /\ commits[h].first \in History[main]
              /\ commits[h].second = <<p, commits[h].tree[p]>>
              /\ \A q \in Projects \ {p} : commits[h].tree[q] = commits[commits[h].first].tree[q]
            BY <1>10, <2>3, Zenon DEF SyncHead, Tree
        <3>2. commits[h].first \in DOMAIN commits
            BY <3>1, MainReached, Zenon
        <3>3. commits'[commits[h].first] = commits[commits[h].first]
            BY <1>3, <3>2, Zenon
        <3>4. commits[h].first \in (History[main])'
            BY <1>9, <3>1, Zenon
        <3>. QED BY <2>1, <3>1, <3>3, <3>4 DEF SyncHead, Tree
    <2>. QED BY <2>2, <2>3, Zenon
<1>. QED BY <1>2, <1>3, <1>4, <1>5, <1>6, <1>9, <1>10

\* Such a step keeps the invariant, if what its clone has in hand is as it
\* should be.
LEMMA CommitStep ==
    ASSUME IInv, NEW x \in Commit, x.first \in DOMAIN commits,
           Len(x.second) = 1 => x.second[1] \in DOMAIN commits,
           \A p \in Projects : x.tree[p] <= upstream[p],
           commits' = Append(commits, x),
           main' = main \/ (main' = Len(commits) + 1 /\ x.first = main),
           UNCHANGED <<upstream, origin>>,
           remote' \in [Projects -> Nat], \A p \in Projects : remote'[p] \in {0, remote[p]},
           prs' \in [Projects -> [num : Nat, open : BOOLEAN, auto : {NoRequest} \cup Request]],
           run' \in [Runners -> Run],
           \A r \in Runners : \/ run'[r] = run[r]
                              \/ /\ run'[r].pc \notin {"idle", "cleanup"} => run'[r].todo # <<>>
                                 /\ Prepared(r)' /\ Clean(r)'
    PROVE  IInv'
<1>1. /\ commits' \in Seq(Commit) /\ Len(commits') = Len(commits) + 1 /\ main' \in DOMAIN commits'
      /\ \A c \in DOMAIN commits : c \in DOMAIN commits' /\ commits'[c] = commits[c]
      /\ commits'[Len(commits) + 1] = x /\ Grown(commits')
    BY NewCommit, Zenon
<1>2. History[main] \subseteq (History[main])'
    BY NewCommit, Zenon
<1>3. \A p \in Projects, h \in DOMAIN commits : SyncHead(p, h) => SyncHead(p, h)'
    BY NewCommit, Zenon
<1>4. TypeOK'
    <2>0. commits \in Seq(Commit) /\ Len(commits) \in Nat /\ remote \in [Projects -> 0 .. Len(commits)]
        BY DEF IInv, TypeOK
    <2>1. \A p \in Projects : remote'[p] \in 0 .. Len(commits')
        BY <1>1, <2>0
    <2>2. remote' \in [Projects -> 0 .. Len(commits')]
        BY <2>1, Zenon
    <2>3. DOMAIN commits \subseteq DOMAIN commits' /\ 0 .. Len(commits) \subseteq 0 .. Len(commits')
        BY <1>1, <2>0
    <2>4. origin' \in [Runners -> [base : DOMAIN commits', sync : [Projects -> 0 .. Len(commits')]]]
        <3>1. origin \in [Runners -> [base : DOMAIN commits, sync : [Projects -> 0 .. Len(commits)]]]
            BY Zenon DEF IInv, TypeOK
        <3>. QED BY <2>3, <3>1
    <2>5. \A r \in Runners : run'[r].pc \notin {"idle", "cleanup"} => run'[r].todo # <<>>
        BY Zenon DEF IInv, TypeOK
    <2>. QED BY <1>1, <2>2, <2>4, <2>5 DEF IInv, TypeOK
<1>5. OnlyItsFolder'
    <2>. SUFFICES ASSUME NEW p \in Projects, remote'[p] # 0
                  PROVE  SyncHead(p, remote[p])'
        BY Zenon DEF OnlyItsFolder
    <2>1. remote'[p] = remote[p] /\ remote[p] # 0
        OBVIOUS
    <2>2. remote[p] \in DOMAIN commits
        BY <2>1, RemoteTyped, Zenon DEF IInv
    <2>3. SyncHead(p, remote[p])
        BY <2>1, Zenon DEF IInv, OnlyItsFolder
    <2>4. PICK h \in DOMAIN commits : h = remote[p]
        BY <2>2, Zenon
    <2>5. SyncHead(p, h)'
        BY <1>3, <2>3, <2>4, Zenon
    <2>. QED BY <2>1, <2>4, <2>5 DEF SyncHead
<1>6. SuccessMeansClean'
    BY Zenon DEF IInv, SuccessMeansClean, Clean
<1>7. (\A c \in DOMAIN commits, p \in Projects : Tree(c)[p] <= upstream[p])'
    <2>. SUFFICES ASSUME NEW c \in DOMAIN commits', NEW p \in Projects
                  PROVE  commits'[c].tree[p] <= upstream[p]
        BY Zenon DEF Tree
    <2>1. CASE c \in DOMAIN commits
        BY <1>1, <2>1, Zenon DEF IInv, Tree
    <2>2. CASE c \notin DOMAIN commits
        <3>1. c = Len(commits) + 1
            <4>1. TypeOK
                BY Zenon DEF IInv
            <4>2. DOMAIN commits = 1 .. Len(commits) /\ Len(commits) \in Nat
                BY <4>1, RemoteTyped, Zenon
            <4>3. DOMAIN commits' = 1 .. (Len(commits) + 1)
                BY <1>1
            <4>. QED BY <2>2, <4>2, <4>3
        <3>. QED BY <1>1, <3>1, Zenon
    <2>. QED BY <2>1, <2>2, Zenon
<1>8. ASSUME NEW r \in Runners
      PROVE  (origin[r].base \in History[main] /\ Prepared(r))'
    <2>1. origin[r].base \in (History[main])' /\ origin' = origin
        BY <1>2, Zenon DEF IInv
    <2>2. CASE run'[r] = run[r]
        <3>. DEFINE h == run[r].worktree.head
        <3>1. run[r].pc = "pull" => h \in (History[main])'
            BY <1>2, Zenon DEF IInv, Prepared
        <3>2. run[r].pc \in {"lease", "push"} =>
                 h \in DOMAIN commits' /\ SyncHead(Project(r), h)'
            <4>. SUFFICES ASSUME run[r].pc \in {"lease", "push"}
                          PROVE  h \in DOMAIN commits' /\ SyncHead(Project(r), h)'
                OBVIOUS
            <4>1. h \in DOMAIN commits /\ SyncHead(Project(r), h)
                BY Zenon DEF IInv, Prepared
            <4>2. Project(r) \in Projects
                BY ProjectTyped, Zenon DEF IInv
            <4>3. PICK p \in Projects, g \in DOMAIN commits : p = Project(r) /\ g = h
                BY <4>1, <4>2, Zenon
            <4>4. SyncHead(p, g)'
                BY <1>3, <4>1, <4>3, Zenon
            <4>5. Project(r)' = p /\ h' = g
                BY <2>2, <4>3, Zenon DEF Project
            <4>6. h \in DOMAIN commits'
                BY <1>1, <4>1
            <4>7. SyncHead(Project(r), h)'
                BY <4>4, <4>5, Zenon DEF SyncHead
            <4>. QED BY <4>6, <4>7, Zenon
        <3>3. run[r].pc = "pr diff" => origin[r].sync[Project(r)] # 0
            BY Zenon DEF IInv, Prepared
        <3>4. run[r].pc \in {"pr find", "pr labels", "pr write", "pr merge"} =>
                 run[r].head \in DOMAIN commits'
            BY <1>1, Zenon DEF IInv, Prepared
        <3>. QED BY <2>1, <2>2, <3>1, <3>2, <3>3, <3>4, Zenon DEF Prepared, Project
    <2>3. CASE run'[r] # run[r]
        BY <2>1, <2>3, Zenon
    <2>. QED BY <2>2, <2>3, Zenon
<1>. QED BY <1>1, <1>4, <1>5, <1>6, <1>7, <1>8 DEF IInv

(***************************************************************************)
(* sync-branch, from the pull on.                                          *)
(***************************************************************************)
\* A list of more than one project has a rest.
LEMMA TailNonempty ==
    ASSUME NEW S, NEW s \in Seq(S), s # <<>>, Len(s) # 1
    PROVE  Tail(s) # <<>>
<1>1. Len(s) \in Nat /\ Len(s) # 0
    OBVIOUS
<1>2. PICK t : t = Tail(s)
    BY Zenon
<1>3. t \in Seq(S) /\ Len(t) = Len(s) - 1
    BY <1>2
<1>4. t # <<>>
    <2>1. Len(t) # 0
        BY <1>1, <1>3
    <2>. QED BY <1>3, <2>1
<1>. QED BY <1>2, <1>4, Zenon

\* The loop of runSyncBranch goes on to the next project or is left.
LEMMA NextProjectRun ==
    ASSUME TypeOK, NEW r \in Runners, run[r].pc \notin {"idle", "cleanup"}, NextProject(r)
    PROVE  \E x \in Run : /\ run' = [run EXCEPT ![r] = x] /\ x.pc \in {"cleanup", "reset"}
                          /\ x.pc # "cleanup" => x.todo # <<>>
<1>. DEFINE todo == run[r].todo
            next == IF Len(todo) = 1 THEN "cleanup" ELSE "reset"
            x == [run[r] EXCEPT !.todo = Tail(todo), !.lease = 0, !.pc = next]
<1>1. run[r] \in Run /\ todo # <<>>
    BY ProjectTyped, Zenon
<1>2. todo \in Seq(Projects) /\ Tail(todo) \in Seq(Projects)
    BY <1>1 DEF Run
<1>3. next # "cleanup" => Tail(todo) # <<>>
    <2>1. Len(todo) # 1 => Tail(todo) # <<>>
        BY <1>1, <1>2, TailNonempty, Zenon
    <2>. QED BY <2>1, Zenon
<1>4. run' = [run EXCEPT ![r] = x]
    BY Zenon DEF NextProject
<1>. HIDE DEF todo
<1>5. x \in Run /\ x.pc = next /\ x.todo = Tail(todo)
    BY <1>1, <1>2, Zenon DEF Run, Steps
<1>. HIDE DEF x
<1>. QED BY <1>3, <1>4, <1>5, Zenon

\* A step that only changes what its clone is doing, on to the next project.
LEMMA NextProjectStep ==
    ASSUME IInv, NEW r \in Runners, run[r].pc \notin {"idle", "cleanup"}, NextProject(r),
           UNCHANGED <<commits, main, upstream, remote, prs, origin>>
    PROVE  IInv'
<1>1. TypeOK
    BY Zenon DEF IInv
<1>2. PICK x \in Run : /\ run' = [run EXCEPT ![r] = x] /\ x.pc \in {"cleanup", "reset"}
                       /\ x.pc # "cleanup" => x.todo # <<>>
    BY <1>1, NextProjectRun, Zenon
<1>3. run'[r] = x
    BY <1>1, <1>2, Zenon DEF TypeOK
<1>4. Prepared(r)' /\ Clean(r)'
    BY <1>2, <1>3, Zenon DEF Prepared, Clean
<1>. QED BY <1>2, <1>4, RunStep, Zenon

\* git subtree pull finds nothing new: the worktree keeps a commit of the base.
LEMMA PullNothingIInv ==
    ASSUME IInv, NEW r \in Runners, PullNothing(r)
    PROVE  IInv'
<1>1. TypeOK /\ run[r].pc = "pull" /\ run[r] \in Run /\ run[r].todo # <<>>
      /\ run[r].worktree.head \in History[main]
      /\ UNCHANGED <<commits, main, upstream, remote, prs, origin>>
    BY Zenon DEF IInv, TypeOK, PullNothing, At, Prepared, GitHub
<1>2. CASE run[r].push
    <2>. DEFINE x == [run[r] EXCEPT !.pc = "lease"]
    <2>1. x \in Run /\ x.pc = "lease" /\ x.todo # <<>> /\ x.worktree.head \in History[main]
        BY <1>1, Zenon DEF Run, Steps
    <2>2. run' = [run EXCEPT ![r] = x]
        BY <1>2, Zenon DEF PullNothing, Pulled
    <2>. HIDE DEF x
    <2>3. run'[r] = x
        BY <1>1, <2>2, Zenon DEF TypeOK
    <2>4. x.worktree.head \in DOMAIN commits
        BY <2>1, MainReached, Zenon
    <2>5. (SyncHead(Project(r), run[r].worktree.head))'
        BY <1>1, <2>1, <2>3, Zenon DEF SyncHead, History
    <2>6. Prepared(r)' /\ Clean(r)'
        BY <1>1, <2>1, <2>3, <2>4, <2>5, Zenon DEF Prepared, Clean
    <2>. QED BY <1>1, <2>1, <2>2, <2>6, RunStep, Zenon
<1>3. CASE ~run[r].push
    <2>1. NextProject(r)
        BY <1>3, Zenon DEF PullNothing, Pulled
    <2>. QED BY <1>1, <2>1, NextProjectStep, Zenon
<1>. QED BY <1>2, <1>3, Zenon

\* git subtree pull commits one merge of the project's own upstream.
LEMMA PullMergesIInv ==
    ASSUME IInv, NEW r \in Runners, PullMerges(r)
    PROVE  IInv'
<1>0. PICK p : p = Project(r)
    OBVIOUS
<1>. DEFINE head == run[r].worktree.head
            c == [first |-> head, second |-> <<p, upstream[p]>>,
                  tree |-> [Tree(head) EXCEPT ![p] = upstream[p]]]
<1>1. TypeOK /\ run[r].pc = "pull" /\ run[r] \in Run /\ run[r].todo # <<>>
      /\ head \in History[main] /\ p \in Projects
    BY <1>0, ProjectTyped, Zenon DEF IInv, PullMerges, At, Prepared
<1>2. commits' = Append(commits, c) /\ UNCHANGED <<main, upstream, remote, prs, origin>>
    BY <1>0, Zenon DEF PullMerges, GitHub
<1>3. head \in DOMAIN commits
    BY <1>1, MainReached, Zenon
<1>4. commits \in Seq(Commit) /\ upstream \in [Projects -> Nat]
      /\ \A q \in Projects : Tree(head)[q] <= upstream[q]
    BY <1>3, Zenon DEF IInv, TypeOK
<1>5. Tree(head) \in [Projects -> Nat] /\ head \in Nat
    BY <1>1, <1>3, CommitTyped, Zenon DEF Tree
<1>6. c \in Commit
    BY <1>1, <1>4, <1>5, Zenon DEF Commit, Second
<1>7. Len(c.second) = 2 /\ c.first = head
    OBVIOUS
<1>8. \A q \in Projects : c.tree[q] <= upstream[q]
    <2>. TAKE q \in Projects
    <2>1. upstream[q] \in Nat /\ Tree(head)[q] <= upstream[q]
        BY <1>4, Zenon
    <2>2. c.tree[q] = IF q = p THEN upstream[q] ELSE Tree(head)[q]
        BY <1>5, Zenon
    <2>. QED BY <2>1, <2>2
<1>9. /\ c.second = <<p, c.tree[p]>>
      /\ \A q \in Projects \ {p} : c.tree[q] = Tree(head)[q]
    BY <1>1, <1>5, Zenon
<1>. HIDE DEF c, head
<1>10. /\ commits' \in Seq(Commit) /\ Len(commits') = Len(commits) + 1
       /\ \A d \in DOMAIN commits : commits'[d] = commits[d]
       /\ commits'[Len(commits) + 1] = c
       /\ History[main] \subseteq (History[main])'
    <2>1. main' = main /\ c.first \in DOMAIN commits /\ ~(Len(c.second) = 1)
        BY <1>2, <1>3, <1>7
    <2>. QED BY <1>2, <1>6, <2>1, NewCommit, Zenon
<1>11. /\ run' \in [Runners -> Run] /\ \A s \in Runners \ {r} : run'[s] = run[s]
       /\ run'[r].pc \notin {"idle", "cleanup"} => run'[r].todo # <<>>
       /\ Prepared(r)' /\ Clean(r)'
    <2>1. CASE run[r].push
        <3>. DEFINE x == [run[r] EXCEPT !.pc = "lease", !.worktree.head = Len(commits')]
        <3>1. Len(commits') \in Nat
            BY <1>4, <1>10
        <3>2. x \in Run /\ x.pc = "lease" /\ x.todo = run[r].todo
              /\ x.worktree.head = Len(commits')
            BY <1>1, <3>1, Zenon DEF Run, Steps, Worktree
        <3>3. run' = [run EXCEPT ![r] = x]
            BY <2>1, Zenon DEF PullMerges
        <3>. HIDE DEF x
        <3>4. run' \in [Runners -> Run] /\ run'[r] = x /\ \A s \in Runners \ {r} : run'[s] = run[s]
            BY <1>1, <3>2, <3>3, Zenon DEF TypeOK
        <3>5. Project(r)' = p
            BY <1>0, <3>2, <3>4, Zenon DEF Project
        <3>6. SyncHead(p, Len(commits))'
            <4>1. head \in (History[main])'
                BY <1>1, <1>10, Zenon
            <4>2. commits'[head] = commits[head]
                BY <1>3, <1>10, Zenon
            <4>3. commits'[Len(commits) + 1] = c
                BY <1>10, Zenon
            <4>4. PICK n : n = Len(commits) + 1
                OBVIOUS
            <4>5. commits'[n] = c
                BY <4>3, <4>4, Zenon
            <4>6. commits'[n].first \in (History[main])'
                BY <1>7, <4>1, <4>5, Zenon
            <4>7. commits'[n].second = <<p, commits'[n].tree[p]>>
                BY <1>9, <4>5, Zenon
            <4>8. \A q \in Projects \ {p} : commits'[n].tree[q] = commits'[commits'[n].first].tree[q]
                BY <1>7, <1>9, <4>2, <4>5 DEF Tree
            <4>9. SyncHead(p, n)'
                BY <4>6, <4>7, <4>8, Zenon DEF SyncHead, Tree
            <4>. QED BY <1>10, <4>4, <4>9, Zenon
        <3>7. Len(commits') \in DOMAIN commits'
            BY <1>4, <1>10
        <3>8. Prepared(r)'
            BY <3>2, <3>4, <3>5, <3>6, <3>7, Zenon DEF Prepared
        <3>. QED BY <1>1, <3>2, <3>4, <3>8, Zenon DEF Clean
    <2>2. CASE ~run[r].push
        <3>1. NextProject(r)
            BY <2>2, Zenon DEF PullMerges
        <3>2. PICK x \in Run : /\ run' = [run EXCEPT ![r] = x] /\ x.pc \in {"cleanup", "reset"}
                               /\ x.pc # "cleanup" => x.todo # <<>>
            BY <1>1, <3>1, NextProjectRun, Zenon
        <3>3. run' \in [Runners -> Run] /\ run'[r] = x /\ \A s \in Runners \ {r} : run'[s] = run[s]
            BY <1>1, <3>2, Zenon DEF TypeOK
        <3>. QED BY <3>2, <3>3, Zenon DEF Prepared, Clean
    <2>. QED BY <2>1, <2>2, Zenon
<1>12. remote' \in [Projects -> Nat] /\ \A q \in Projects : remote'[q] \in {0, remote[q]}
    BY <1>1, <1>2, <1>4, RemoteMap, Zenon
<1>13. prs' \in [Projects -> [num : Nat, open : BOOLEAN, auto : {NoRequest} \cup Request]]
    BY <1>1, <1>2, Zenon DEF TypeOK
<1>14. main' = main /\ c.first \in DOMAIN commits /\ ~(Len(c.second) = 1)
    BY <1>2, <1>3, <1>7
<1>15. UNCHANGED <<upstream, origin>> /\ commits' = Append(commits, c)
    BY <1>2, Zenon
<1>16. \A s \in Runners : \/ run'[s] = run[s]
                          \/ /\ run'[s].pc \notin {"idle", "cleanup"} => run'[s].todo # <<>>
                             /\ Prepared(s)' /\ Clean(s)'
    BY <1>11, Zenon
<1>. QED BY <1>6, <1>8, <1>11, <1>12, <1>13, <1>14, <1>15, <1>16, CommitStep

\* findRemoteBranchHeadRef only records where the branch is.
LEMMA FindRemoteBranchHeadRefIInv ==
    ASSUME IInv, NEW r \in Runners, FindRemoteBranchHeadRef(r)
    PROVE  IInv'
<1>1. TypeOK /\ run[r].pc = "lease" /\ run[r] \in Run /\ run[r].todo # <<>>
      /\ Project(r) \in Projects
      /\ run[r].worktree.head \in DOMAIN commits /\ SyncHead(Project(r), run[r].worktree.head)
    BY ProjectTyped, Zenon DEF IInv, FindRemoteBranchHeadRef, At, Prepared
<1>2. remote[Project(r)] \in Nat
    BY <1>1, RemoteTyped, Zenon
<1>. DEFINE x == [run[r] EXCEPT !.pc = "push", !.lease = remote[Project(r)]]
<1>3. x \in Run /\ x.pc = "push" /\ x.todo = run[r].todo /\ x.worktree = run[r].worktree
    BY <1>1, <1>2, Zenon DEF Run, Steps
<1>4. run' = [run EXCEPT ![r] = x] /\ UNCHANGED <<commits, main, upstream, remote, prs, origin>>
    BY Zenon DEF FindRemoteBranchHeadRef, GitHub
<1>. HIDE DEF x
<1>5. run'[r] = x
    BY <1>1, <1>4, Zenon DEF TypeOK
<1>6. Project(r)' = Project(r)
    BY <1>3, <1>5, Zenon DEF Project
<1>7. (SyncHead(Project(r), run[r].worktree.head))'
    <2>1. run'[r].worktree.head = run[r].worktree.head
        BY <1>3, <1>5, Zenon
    <2>. QED BY <1>1, <1>4, <1>6, <2>1, Zenon DEF SyncHead, History, Tree
<1>8. Prepared(r)' /\ Clean(r)'
    BY <1>1, <1>3, <1>4, <1>5, <1>7, Zenon DEF Prepared, Clean
<1>. QED BY <1>1, <1>3, <1>4, <1>8, RunStep, Zenon

\* The branch moves to the head of the worktree, whatever the answer.
LEMMA PushStep ==
    ASSUME IInv, NEW r \in Runners, run[r].pc = "push",
           remote' = [remote EXCEPT ![Project(r)] = run[r].worktree.head],
           UNCHANGED <<commits, main, upstream, prs, origin>>,
           NEW x \in Run, run' = [run EXCEPT ![r] = x], x.pc \in {"cleanup", "reset"},
           x.pc # "cleanup" => x.todo # <<>>
    PROVE  IInv'
<1>1. TypeOK /\ Project(r) \in Projects /\ origin[r].base \in History[main]
      /\ run[r].worktree.head \in DOMAIN commits /\ SyncHead(Project(r), run[r].worktree.head)
    BY ProjectTyped, Zenon DEF IInv, Prepared
<1>2. run[r].worktree.head \in 0 .. Len(commits)
    <2>1. commits \in Seq(Commit)
        BY <1>1, Zenon DEF TypeOK
    <2>. QED BY <1>1, <2>1
<1>3. remote' \in [Projects -> 0 .. Len(commits)]
    <2>1. remote \in [Projects -> 0 .. Len(commits)]
        BY <1>1, Zenon DEF TypeOK
    <2>. QED BY <1>1, <1>2, <2>1, Zenon
<1>4. \A p \in Projects : remote'[p] = remote[p] \/ SyncHead(p, remote'[p])
    BY <1>1, Zenon DEF TypeOK
<1>5. run' \in [Runners -> Run] /\ run'[r] = x /\ \A s \in Runners \ {r} : run'[s] = run[s]
    BY <1>1, Zenon DEF TypeOK
<1>6. \A s \in Runners : run'[s].pc \notin {"idle", "cleanup"} => run'[s].todo # <<>>
    BY <1>1, <1>5, Zenon DEF TypeOK
<1>7. TypeOK'
    BY <1>1, <1>3, <1>5, <1>6, Zenon DEF TypeOK
<1>8. Prepared(r)' /\ Clean(r)'
    BY <1>5, Zenon DEF Prepared, Clean
<1>9. \A s \in Runners \ {r} : run'[s] = run[s] /\ origin'[s] = origin[s]
    BY <1>5, Zenon
<1>10. origin'[r].base \in History[main]
    BY <1>1, Zenon
<1>. QED BY <1>4, <1>7, <1>8, <1>9, <1>10, LocalStep

\* A push that the lease admits: the branch gets the worktree's commit.
LEMMA PushIInv ==
    ASSUME IInv, NEW r \in Runners, Push(r)
    PROVE  IInv'
<1>1. TypeOK /\ run[r].pc = "push" /\ NextProject(r)
      /\ remote' = [remote EXCEPT ![Project(r)] = run[r].worktree.head]
      /\ UNCHANGED <<commits, main, upstream, prs, origin>>
    BY Zenon DEF IInv, Push, At
<1>2. PICK x \in Run : /\ run' = [run EXCEPT ![r] = x] /\ x.pc \in {"cleanup", "reset"}
                       /\ x.pc # "cleanup" => x.todo # <<>>
    BY <1>1, NextProjectRun, Zenon
<1>. QED BY <1>1, <1>2, PushStep, Zenon

\* A run that goes on to clean up, with an error or not.
LEMMA CleanupRun ==
    ASSUME TypeOK, NEW r \in Runners
    PROVE  LET x == [run[r] EXCEPT !.pc = "cleanup", !.err = TRUE]
           IN  x \in Run /\ x.pc = "cleanup"
<1>1. run[r] \in Run
    BY Zenon DEF TypeOK
<1>. QED BY <1>1, Zenon DEF Run, Steps

\* The same push, reported to the run as failed.
LEMMA PushLosesAnswerIInv ==
    ASSUME IInv, NEW r \in Runners, PushLosesAnswer(r)
    PROVE  IInv'
<1>. DEFINE x == [run[r] EXCEPT !.pc = "cleanup", !.err = TRUE]
<1>1. TypeOK /\ run[r].pc = "push" /\ run' = [run EXCEPT ![r] = x]
      /\ remote' = [remote EXCEPT ![Project(r)] = run[r].worktree.head]
      /\ UNCHANGED <<commits, main, upstream, prs, origin>>
    BY Zenon DEF IInv, PushLosesAnswer, At
<1>2. x \in Run /\ x.pc = "cleanup"
    BY <1>1, CleanupRun, Zenon
<1>. HIDE DEF x
<1>. QED BY <1>1, <1>2, PushStep, Zenon

\* A command of kido sync branch fails without effect.
LEMMA SyncBranchFailsIInv ==
    ASSUME IInv, NEW r \in Runners, SyncBranchFails(r)
    PROVE  IInv'
<1>1. TypeOK /\ UNCHANGED <<commits, main, upstream, remote, prs, origin>>
    BY Zenon DEF IInv, SyncBranchFails, GitHub
<1>2. CASE run[r].pc = "fetch"
    <2>1. run' = [run EXCEPT ![r] = Failed(r)]
        BY <1>2, Zenon DEF SyncBranchFails
    <2>. QED BY <1>1, <2>1, FailedStep, Zenon
<1>3. CASE run[r].pc # "fetch"
    <2>. DEFINE x == [run[r] EXCEPT !.pc = "cleanup", !.err = TRUE]
    <2>1. run' = [run EXCEPT ![r] = x]
        BY <1>3, Zenon DEF SyncBranchFails
    <2>2. x \in Run /\ x.pc = "cleanup"
        BY <1>1, CleanupRun, Zenon
    <2>. HIDE DEF x
    <2>3. run'[r] = x
        BY <1>1, <2>1, Zenon DEF TypeOK
    <2>4. Prepared(r)' /\ Clean(r)'
        BY <2>2, <2>3, Zenon DEF Prepared, Clean
    <2>. QED BY <1>1, <2>1, <2>2, <2>4, RunStep, Zenon
<1>. QED BY <1>2, <1>3, Zenon

\* A run ends as its command says, having left no worktree unless it reports
\* an error or was asked to keep it.
LEMMA EndStep ==
    ASSUME IInv, NEW r \in Runners, NEW err \in BOOLEAN, NEW w \in Worktree,
           run' = [run EXCEPT ![r] = Ended(r, err, w)],
           err \/ run[r].persist \/ (~w.dir /\ ~w.added),
           UNCHANGED <<commits, main, upstream, remote, prs, origin>>
    PROVE  IInv'
<1>1. TypeOK
    BY Zenon DEF IInv
<1>2. PICK x : x = Ended(r, err, w)
    OBVIOUS
<1>3. x \in Run /\ x.pc = "idle" /\ x.err = err /\ x.persist = run[r].persist
      /\ x.worktree.dir = w.dir /\ x.worktree.added = w.added
    BY <1>1, <1>2, EndedTyped
<1>4. run' = [run EXCEPT ![r] = x] /\ run'[r] = x
    BY <1>1, <1>2, Zenon DEF TypeOK
<1>5. Prepared(r)' /\ Clean(r)'
    BY <1>3, <1>4, Zenon DEF Prepared, Clean
<1>. QED BY <1>3, <1>4, <1>5, RunStep, Zenon

\* A run with --persist ends and keeps its worktree.
LEMMA PersistIInv ==
    ASSUME IInv, NEW r \in Runners, Persist(r)
    PROVE  IInv'
<1>1. run[r] \in Run
    BY Zenon DEF IInv, TypeOK
<1>2. run[r].err \in BOOLEAN /\ run[r].worktree \in Worktree
    BY <1>1, Zenon DEF Run
<1>3. run' = [run EXCEPT ![r] = Ended(r, run[r].err, run[r].worktree)] /\ run[r].persist
      /\ UNCHANGED <<commits, main, upstream, remote, prs, origin>>
    BY Zenon DEF Persist, GitHub
<1>. QED BY <1>2, <1>3, EndStep, Zenon

\* The deferred cleanup: a removal that fails turns the run into a failed one.
LEMMA CleanupIInv ==
    ASSUME IInv, NEW r \in Runners, Cleanup(r)
    PROVE  IInv'
<1>1. PICK removed \in BOOLEAN, deleted \in BOOLEAN :
          run' = [run EXCEPT ![r] = Ended(r, run[r].err \/ ~removed \/ ~deleted,
                                          Remains(removed, deleted))]
    BY Zenon DEF Cleanup
<1>2. run[r] \in Run
    BY Zenon DEF IInv, TypeOK
<1>3. (run[r].err \/ ~removed \/ ~deleted) \in BOOLEAN
    OBVIOUS
<1>4. /\ Remains(removed, deleted) \in Worktree
      /\ removed => ~Remains(removed, deleted).dir /\ ~Remains(removed, deleted).added
    BY Zenon DEF Remains, NoWorktree, Worktree
<1>5. UNCHANGED <<commits, main, upstream, remote, prs, origin>>
    BY Zenon DEF Cleanup, GitHub
<1>6. PICK err \in BOOLEAN : err = (run[r].err \/ ~removed \/ ~deleted)
    BY <1>3, Zenon
<1>7. PICK w \in Worktree : w = Remains(removed, deleted)
    BY <1>4, Zenon
<1>8. err \/ (~w.dir /\ ~w.added)
    BY <1>4, <1>6, <1>7, Zenon
<1>9. run' = [run EXCEPT ![r] = Ended(r, err, w)]
    BY <1>1, <1>6, <1>7, Zenon
<1>. QED BY <1>5, <1>8, <1>9, EndStep, Zenon

(***************************************************************************)
(* sync-pr.                                                                *)
(***************************************************************************)
\* The loop of runSyncPR goes on to the next project or is left.
LEMMA NextPRRun ==
    ASSUME TypeOK, NEW r \in Runners, run[r].pc \notin {"idle", "cleanup"}, NextPR(r)
    PROVE  \E x \in Run : /\ run' = [run EXCEPT ![r] = x] /\ x.pc \in {"idle", "pr fetch"}
                          /\ x.pc # "idle" => x.todo # <<>>
                          /\ x.pc = "idle" => ~x.worktree.dir /\ ~x.worktree.added
<1>1. run[r] \in Run /\ run[r].todo # <<>>
    BY ProjectTyped, Zenon
<1>2. run[r].todo \in Seq(Projects)
    BY <1>1, Zenon DEF Run
<1>3. CASE Len(run[r].todo) = 1
    <2>1. NoWorktree \in Worktree /\ ~NoWorktree.dir /\ ~NoWorktree.added
        BY Zenon DEF NoWorktree, Worktree
    <2>2. PICK x : x = Ended(r, FALSE, NoWorktree)
        BY Zenon
    <2>3. x \in Run /\ x.pc = "idle" /\ x.worktree.dir = NoWorktree.dir
          /\ x.worktree.added = NoWorktree.added
        BY <2>1, <2>2, EndedTyped, Zenon
    <2>4. run' = [run EXCEPT ![r] = x]
        BY <1>3, <2>2, Zenon DEF NextPR
    <2>. QED BY <2>1, <2>3, <2>4, Zenon
<1>4. CASE Len(run[r].todo) # 1
    <2>. DEFINE x == [run[r] EXCEPT !.todo = Tail(run[r].todo), !.head = 0, !.pr = 0,
                                    !.pc = "pr fetch"]
    <2>1. Tail(run[r].todo) \in Seq(Projects) /\ Tail(run[r].todo) # <<>>
        BY <1>1, <1>2, <1>4, TailNonempty
    <2>2. x \in Run /\ x.pc = "pr fetch" /\ x.todo # <<>>
        BY <1>1, <2>1, Zenon DEF Run, Steps
    <2>3. run' = [run EXCEPT ![r] = x]
        BY <1>4, Zenon DEF NextPR
    <2>. HIDE DEF x
    <2>. QED BY <2>2, <2>3, Zenon
<1>. QED BY <1>3, <1>4, Zenon

\* A step of sync-pr that writes to pull requests or labels and leaves branches
\* and commits alone.
LEMMA PRStep ==
    ASSUME IInv, NEW r \in Runners, NEW x \in Run, run' = [run EXCEPT ![r] = x],
           x.pc \notin {"idle", "cleanup"} => x.todo # <<>>,
           UNCHANGED <<commits, main, upstream, remote, origin>>,
           prs' \in [Projects -> [num : Nat, open : BOOLEAN, auto : {NoRequest} \cup Request]],
           Prepared(r)', Clean(r)'
    PROVE  IInv'
<1>1. TypeOK /\ origin[r].base \in History[main]
    BY Zenon DEF IInv
<1>2. run' \in [Runners -> Run] /\ \A s \in Runners \ {r} : run'[s] = run[s]
    BY <1>1, Zenon DEF TypeOK
<1>3. \A s \in Runners : run'[s].pc \notin {"idle", "cleanup"} => run'[s].todo # <<>>
    BY <1>1, Zenon DEF TypeOK
<1>4. TypeOK'
    BY <1>1, <1>2, <1>3, Zenon DEF TypeOK
<1>5. \A s \in Runners \ {r} : run'[s] = run[s] /\ origin'[s] = origin[s]
    BY <1>2, Zenon
<1>6. origin'[r].base \in History[main] /\ \A p \in Projects : remote'[p] = remote[p]
    BY <1>1, Zenon
<1>. QED BY <1>4, <1>5, <1>6, LocalStep, Zenon

\* kido sync pr fetches the base and the project's branch.
LEMMA FetchSyncBranchIInv ==
    ASSUME IInv, NEW r \in Runners, FetchSyncBranch(r)
    PROVE  IInv'
<1>0. PICK p : p = Project(r)
    OBVIOUS
<1>1. TypeOK /\ run[r].pc = "pr fetch" /\ run[r] \in Run /\ run[r].todo # <<>>
      /\ p \in Projects /\ origin[r].base \in History[main]
    BY <1>0, ProjectTyped, Zenon DEF IInv, FetchSyncBranch, At
<1>. DEFINE x == [run[r] EXCEPT !.pc = "pr diff"]
<1>2. x \in Run /\ x.pc = "pr diff" /\ x.todo = run[r].todo
    BY <1>1, Zenon DEF Run, Steps
<1>3. run' = [run EXCEPT ![r] = x] /\ origin' = [origin EXCEPT ![r].sync[p] = remote[p]]
      /\ remote[p] # 0 /\ UNCHANGED <<commits, main, upstream, remote, prs>>
    BY <1>0, Zenon DEF FetchSyncBranch, GitHub
<1>. HIDE DEF x
<1>4. run' \in [Runners -> Run] /\ run'[r] = x /\ \A s \in Runners \ {r} : run'[s] = run[s]
    BY <1>1, <1>2, <1>3, Zenon DEF TypeOK
<1>5. /\ origin' \in [Runners -> [base : DOMAIN commits, sync : [Projects -> 0 .. Len(commits)]]]
      /\ origin'[r].base = origin[r].base /\ origin'[r].sync[p] = remote[p]
      /\ \A s \in Runners \ {r} : origin'[s] = origin[s]
    <2>1. remote[p] \in 0 .. Len(commits) /\ origin[r].sync \in [Projects -> 0 .. Len(commits)]
        BY <1>1, Zenon DEF TypeOK
    <2>. DEFINE y == [origin[r] EXCEPT !.sync[p] = remote[p]]
    <2>2. origin[r] \in [base : DOMAIN commits, sync : [Projects -> 0 .. Len(commits)]]
        BY <1>1, Zenon DEF TypeOK
    <2>3. /\ y \in [base : DOMAIN commits, sync : [Projects -> 0 .. Len(commits)]]
          /\ y.base = origin[r].base /\ y.sync[p] = remote[p]
        BY <1>1, <2>1, <2>2, Zenon
    <2>4. origin' = [origin EXCEPT ![r] = y]
        BY <1>3, Zenon
    <2>. HIDE DEF y
    <2>. QED BY <1>1, <2>3, <2>4, Zenon DEF TypeOK
<1>6. \A s \in Runners : run'[s].pc \notin {"idle", "cleanup"} => run'[s].todo # <<>>
    BY <1>1, <1>2, <1>4, Zenon DEF TypeOK
<1>7. TypeOK'
    BY <1>1, <1>3, <1>4, <1>5, <1>6, Zenon DEF TypeOK
<1>8. Project(r)' = p
    BY <1>0, <1>2, <1>4, Zenon DEF Project
<1>9. Prepared(r)' /\ Clean(r)'
    BY <1>2, <1>3, <1>4, <1>5, <1>8, Zenon DEF Prepared, Clean
<1>10. origin'[r].base \in History[main]
    BY <1>1, <1>5, Zenon
<1>11. \A s \in Runners \ {r} : run'[s] = run[s] /\ origin'[s] = origin[s]
    BY <1>4, <1>5, Zenon
<1>12. \A q \in Projects : remote'[q] = remote[q]
    BY <1>3, Zenon
<1>. QED BY <1>3, <1>7, <1>9, <1>10, <1>11, <1>12, LocalStep

\* A branch that the base already contains is skipped.
LEMMA SkipWithoutDiffIInv ==
    ASSUME IInv, NEW r \in Runners, SkipWithoutDiff(r)
    PROVE  IInv'
<1>1. TypeOK /\ run[r].pc = "pr diff" /\ NextPR(r)
      /\ UNCHANGED <<commits, main, upstream, remote, prs, origin>>
    BY Zenon DEF IInv, SkipWithoutDiff, At, GitHub
<1>2. PICK x \in Run : /\ run' = [run EXCEPT ![r] = x] /\ x.pc \in {"idle", "pr fetch"}
                       /\ x.pc # "idle" => x.todo # <<>>
                       /\ x.pc = "idle" => ~x.worktree.dir /\ ~x.worktree.added
    BY <1>1, NextPRRun, Zenon
<1>3. run'[r] = x
    BY <1>1, <1>2, Zenon DEF TypeOK
<1>4. Prepared(r)' /\ Clean(r)'
    BY <1>2, <1>3, Zenon DEF Prepared, Clean
<1>. QED BY <1>1, <1>2, <1>4, RunStep, Zenon

\* subtreeMetadataForSyncHead reads the parents of the branch's head.
LEMMA SubtreeMetadataIInv ==
    ASSUME IInv, NEW r \in Runners, SubtreeMetadataForSyncHead(r)
    PROVE  IInv'
<1>1. TypeOK /\ run[r].pc = "pr diff" /\ run[r] \in Run /\ run[r].todo # <<>>
      /\ Project(r) \in Projects /\ origin[r].sync[Project(r)] # 0
    BY ProjectTyped, Zenon DEF IInv, SubtreeMetadataForSyncHead, At, Prepared
<1>2. PICK h : h = origin[r].sync[Project(r)]
    OBVIOUS
<1>3. h \in DOMAIN commits /\ h \in Nat
    <2>1. commits \in Seq(Commit) /\ h \in 0 .. Len(commits)
        <3>1. commits \in Seq(Commit) /\ origin[r] \in [base : DOMAIN commits, sync : [Projects -> 0 .. Len(commits)]]
            BY <1>1, Zenon DEF TypeOK
        <3>2. origin[r].sync \in [Projects -> 0 .. Len(commits)]
            BY <3>1, Zenon
        <3>. QED BY <1>1, <1>2, <3>1, <3>2, Zenon
    <2>2. h # 0
        BY <1>1, <1>2, Zenon
    <2>3. DOMAIN commits = 1 .. Len(commits) /\ Len(commits) \in Nat
        BY <2>1
    <2>. QED BY <2>1, <2>2, <2>3
<1>. DEFINE x == [run[r] EXCEPT !.pc = "pr find", !.head = h]
<1>4. x \in Run /\ x.pc = "pr find" /\ x.todo = run[r].todo /\ x.head = h
    BY <1>1, <1>3, Zenon DEF Run, Steps
<1>5. run' = [run EXCEPT ![r] = x] /\ UNCHANGED <<commits, main, upstream, remote, prs, origin>>
    BY <1>2, Zenon DEF SubtreeMetadataForSyncHead, GitHub
<1>. HIDE DEF x
<1>6. run'[r] = x
    BY <1>1, <1>5, Zenon DEF TypeOK
<1>7. Prepared(r)' /\ Clean(r)'
    BY <1>3, <1>4, <1>5, <1>6, Zenon DEF Prepared, Clean
<1>. QED BY <1>1, <1>4, <1>5, <1>7, RunStep, Zenon

\* findOpenPR finds the request, or leaves it to be created.
LEMMA FindOpenPRIInv ==
    ASSUME IInv, NEW r \in Runners, FindOpenPR(r)
    PROVE  IInv'
<1>1. TypeOK /\ run[r].pc = "pr find" /\ run[r] \in Run /\ run[r].todo # <<>>
      /\ Project(r) \in Projects /\ run[r].head \in DOMAIN commits
    BY ProjectTyped, Zenon DEF IInv, FindOpenPR, At, Prepared
<1>2. PICK n : n = IF prs[Project(r)].open THEN prs[Project(r)].num ELSE 0
    OBVIOUS
<1>3. n \in Nat
    BY <1>1, <1>2, Zenon DEF TypeOK
<1>. DEFINE x == [run[r] EXCEPT !.pc = "pr labels", !.pr = n]
<1>4. x \in Run /\ x.pc = "pr labels" /\ x.todo = run[r].todo /\ x.head = run[r].head
    BY <1>1, <1>3, Zenon DEF Run, Steps
<1>5. run' = [run EXCEPT ![r] = x] /\ UNCHANGED <<commits, main, upstream, remote, prs, origin>>
    BY <1>2, Zenon DEF FindOpenPR, GitHub
<1>. HIDE DEF x
<1>6. run'[r] = x
    BY <1>1, <1>5, Zenon DEF TypeOK
<1>7. Prepared(r)' /\ Clean(r)'
    BY <1>1, <1>4, <1>5, <1>6, Zenon DEF Prepared, Clean
<1>. QED BY <1>1, <1>4, <1>5, <1>7, RunStep, Zenon

\* ensureLabelExists and gh pr edit write nothing that another step reads.
LEMMA LabelsAndEditIInv ==
    ASSUME IInv, NEW r \in Runners,
           EditPR(r) \/ (EnsureSyncLabels(r) /\ run' # [run EXCEPT ![r] = Failed(r)])
    PROVE  IInv'
<1>1. PICK pc \in {"pr write", "pr merge"} : run' = [run EXCEPT ![r].pc = pc]
    BY Zenon DEF EnsureSyncLabels, EditPR
<1>2. TypeOK /\ run[r] \in Run /\ run[r].todo # <<>> /\ run[r].head \in DOMAIN commits
    BY ProjectTyped, Zenon DEF IInv, EnsureSyncLabels, EditPR, At, Prepared
<1>. DEFINE x == [run[r] EXCEPT !.pc = pc]
<1>3. x \in Run /\ x.pc = pc /\ x.todo = run[r].todo /\ x.head = run[r].head
    BY <1>2, Zenon DEF Run, Steps
<1>4. run' = [run EXCEPT ![r] = x] /\ UNCHANGED <<commits, main, upstream, remote, prs, origin>>
    BY <1>1, Zenon DEF EnsureSyncLabels, EditPR, GitHub
<1>. HIDE DEF x
<1>5. run'[r] = x
    BY <1>2, <1>4, Zenon DEF TypeOK
<1>6. Prepared(r)' /\ Clean(r)'
    BY <1>2, <1>3, <1>4, <1>5, Zenon DEF Prepared, Clean
<1>. QED BY <1>2, <1>3, <1>4, <1>6, RunStep, Zenon

\* The answer of a command that wrote a pull request is lost.
LEMMA FailedPRStep ==
    ASSUME IInv, NEW r \in Runners, run' = [run EXCEPT ![r] = Failed(r)],
           UNCHANGED <<commits, main, upstream, remote, origin>>,
           prs' \in [Projects -> [num : Nat, open : BOOLEAN, auto : {NoRequest} \cup Request]]
    PROVE  IInv'
<1>1. run \in [Runners -> Run]
    BY DEF IInv, TypeOK
<1>2. Failed(r) \in Run /\ Failed(r).pc = "idle" /\ Failed(r).err = TRUE
    BY FailedTyped, Zenon DEF IInv
<1>3. run'[r] = Failed(r)
    BY <1>1, Zenon
<1>4. Prepared(r)' /\ Clean(r)'
    BY <1>2, <1>3, Zenon DEF Prepared, Clean
<1>. QED BY <1>2, <1>4, PRStep, Zenon

\* gh pr create, with an answer or without one.
LEMMA CreatePRIInv ==
    ASSUME IInv, NEW r \in Runners, CreatePR(r)
    PROVE  IInv'
<1>0. PICK p : p = Project(r)
    OBVIOUS
<1>1. TypeOK /\ run[r].pc = "pr write" /\ run[r] \in Run /\ run[r].todo # <<>>
      /\ p \in Projects /\ run[r].head \in DOMAIN commits
    BY <1>0, ProjectTyped, Zenon DEF IInv, CreatePR, At, Prepared
<1>2. prs[p].num + 1 \in Nat
    <2>1. prs[p].num \in Nat
        BY <1>1, Zenon DEF TypeOK
    <2>. QED BY <2>1
<1>3. prs' = [prs EXCEPT ![p] = [num |-> prs[p].num + 1, open |-> TRUE, auto |-> NoRequest]]
    BY <1>0, Zenon DEF CreatePR
<1>4. prs' \in [Projects -> [num : Nat, open : BOOLEAN, auto : {NoRequest} \cup Request]]
    BY <1>1, <1>2, <1>3, Zenon DEF TypeOK
<1>5. UNCHANGED <<commits, main, upstream, remote, origin>>
    BY Zenon DEF CreatePR
<1>6. ASSUME run' = [run EXCEPT ![r].pc = "pr merge", ![r].pr = prs[p].num + 1]
      PROVE  IInv'
    <2>. DEFINE x == [run[r] EXCEPT !.pc = "pr merge", !.pr = prs[p].num + 1]
    <2>1. x \in Run /\ x.pc = "pr merge" /\ x.todo = run[r].todo /\ x.head = run[r].head
        BY <1>1, <1>2, Zenon DEF Run, Steps
    <2>2. run' = [run EXCEPT ![r] = x]
        BY <1>6, Zenon
    <2>. HIDE DEF x
    <2>3. run'[r] = x
        BY <1>1, <2>2, Zenon DEF TypeOK
    <2>4. Prepared(r)' /\ Clean(r)'
        BY <1>1, <1>5, <2>1, <2>3, Zenon DEF Prepared, Clean
    <2>. QED BY <1>1, <1>4, <1>5, <2>1, <2>2, <2>4, PRStep, Zenon
<1>7. ASSUME run' = [run EXCEPT ![r] = Failed(r)]
      PROVE  IInv'
    BY <1>4, <1>5, <1>7, FailedPRStep, Zenon
<1>. QED BY <1>0, <1>6, <1>7, Zenon DEF CreatePR

\* gh pr merge --auto writes the trailers of the head it was given.
LEMMA MergePRIInv ==
    ASSUME IInv, NEW r \in Runners, MergePR(r)
    PROVE  IInv'
<1>0. PICK p : p = Project(r)
    OBVIOUS
<1>1. TypeOK /\ run[r].pc = "pr merge" /\ p \in Projects /\ run[r].head \in DOMAIN commits
    BY <1>0, ProjectTyped, Zenon DEF IInv, MergePR, At, Prepared
<1>2. AutoMergeRequest(r) \in Request
    <2>1. commits \in Seq(Commit)
        BY <1>1, Zenon DEF TypeOK
    <2>2. PICK h : h = run[r].head
        OBVIOUS
    <2>3. h \in DOMAIN commits
        BY <1>1, <2>2, Zenon
    <2>4. commits[h] \in Commit /\ h \in Nat \ {0}
        BY <2>1, <2>3
    <2>5. commits[h].first \in Nat /\ commits[h].second \in Second
        BY <2>4, Zenon DEF Commit
    <2>. QED BY <1>0, <1>1, <2>2, <2>4, <2>5, Zenon DEF AutoMergeRequest, Request
<1>3. prs' = [prs EXCEPT ![p].auto = AutoMergeRequest(r)]
    BY <1>0, Zenon DEF MergePR
<1>4. prs' \in [Projects -> [num : Nat, open : BOOLEAN, auto : {NoRequest} \cup Request]]
    BY <1>1, <1>2, <1>3, Zenon DEF TypeOK
<1>5. UNCHANGED <<commits, main, upstream, remote, origin>>
    BY Zenon DEF MergePR
<1>6. ASSUME NextPR(r)
      PROVE  IInv'
    <2>1. PICK x \in Run : /\ run' = [run EXCEPT ![r] = x] /\ x.pc \in {"idle", "pr fetch"}
                           /\ x.pc # "idle" => x.todo # <<>>
                           /\ x.pc = "idle" => ~x.worktree.dir /\ ~x.worktree.added
        BY <1>1, <1>6, NextPRRun, Zenon
    <2>2. run'[r] = x
        BY <1>1, <2>1, Zenon DEF TypeOK
    <2>3. Prepared(r)' /\ Clean(r)'
        BY <2>1, <2>2, Zenon DEF Prepared, Clean
    <2>. QED BY <1>4, <1>5, <2>1, <2>3, PRStep, Zenon
<1>7. ASSUME run' = [run EXCEPT ![r] = Failed(r)]
      PROVE  IInv'
    BY <1>4, <1>5, <1>7, FailedPRStep, Zenon
<1>. QED BY <1>6, <1>7, Zenon DEF MergePR

\* A command of kido sync pr fails with no effect, or only on the labels.
LEMMA SyncPRFailsIInv ==
    ASSUME IInv, NEW r \in Runners, SyncPRFails(r) \/ Crash(r) \/ EnsureSyncLabels(r),
           run' = [run EXCEPT ![r] = Failed(r)]
    PROVE  IInv'
<1>1. run' = [run EXCEPT ![r] = Failed(r)]
    OBVIOUS
<1>2. UNCHANGED <<commits, main, upstream, remote, prs, origin>>
    BY Zenon DEF SyncPRFails, Crash, EnsureSyncLabels, GitHub
<1>. QED BY <1>1, <1>2, FailedStep, Zenon

\* The deadline of the command passes: the run goes on, canceled.
LEMMA TimeoutIInv ==
    ASSUME IInv, NEW r \in Runners, Timeout(r)
    PROVE  IInv'
<1>1. TypeOK /\ run[r] \in Run /\ Prepared(r) /\ run[r].pc # "idle"
    BY Zenon DEF IInv, TypeOK, Timeout
<1>. DEFINE x == [run[r] EXCEPT !.canceled = TRUE]
<1>2. /\ x \in Run /\ x.pc = run[r].pc /\ x.todo = run[r].todo /\ x.head = run[r].head
      /\ x.worktree = run[r].worktree
    BY <1>1, Zenon DEF Run
<1>3. run' = [run EXCEPT ![r] = x] /\ UNCHANGED <<commits, main, upstream, remote, prs, origin>>
    BY Zenon DEF Timeout, GitHub
<1>. HIDE DEF x
<1>4. x.pc \notin {"idle", "cleanup"} => x.todo # <<>>
    BY <1>1, <1>2, Zenon DEF TypeOK
<1>5. run'[r] = x
    BY <1>1, <1>3, Zenon DEF TypeOK
<1>6. Clean(r)'
    BY <1>1, <1>2, <1>5, Zenon DEF Clean
<1>7. Prepared(r)'
    <2>1. /\ run'[r].pc = run[r].pc /\ run'[r].todo = run[r].todo
          /\ run'[r].head = run[r].head /\ run'[r].worktree = run[r].worktree
        BY <1>2, <1>5, Zenon
    <2>2. Project(r)' = Project(r)
        BY <2>1, Zenon DEF Project
    <2>3. History' = History
        BY <1>3, Zenon DEF History
    <2>4. \A p, c : SyncHead(p, c)' <=> SyncHead(p, c)
        BY <1>3, <2>3, Zenon DEF SyncHead, Tree
    <2>. QED BY <1>1, <1>3, <2>1, <2>2, <2>3, <2>4, Zenon DEF Prepared
<1>. QED BY <1>2, <1>3, <1>4, <1>6, <1>7, RunStep, Zenon

(***************************************************************************)
(* The rest of the world.                                                  *)
(***************************************************************************)
\* GitHub merges a request: the head becomes a parent of a commit of the base.
LEMMA GitHubMergesIInv ==
    ASSUME IInv, NEW p \in Projects, GitHubMerges(p)
    PROVE  IInv'
<1>1. TypeOK /\ main \in DOMAIN commits /\ commits \in Seq(Commit) /\ remote[p] \in 0 .. Len(commits)
    BY DEF IInv, TypeOK
<1>2. PICK h : h = remote[p]
    OBVIOUS
<1>3. h \in DOMAIN commits /\ h \in Nat /\ main \in Nat
    <2>1. h # 0 /\ h \in 0 .. Len(commits)
        BY <1>1, <1>2, Zenon DEF GitHubMerges
    <2>2. DOMAIN commits = 1 .. Len(commits) /\ Len(commits) \in Nat
        BY <1>1
    <2>. QED BY <1>1, <2>1, <2>2
<1>4. commits[main].tree \in [Projects -> Nat] /\ commits[h].tree \in [Projects -> Nat]
    BY <1>1, <1>3, CommitTyped, Zenon
<1>. DEFINE x == [first |-> main, second |-> <<h>>,
                  tree |-> [commits[main].tree EXCEPT ![p] = commits[h].tree[p]]]
<1>5. commits' = Append(commits, x) /\ UNCHANGED <<upstream, origin, run>>
    BY <1>2, Zenon DEF GitHubMerges, Tree
<1>6. x \in Commit
    <2>1. <<h>> \in Second
        BY <1>3 DEF Second
    <2>. QED BY <1>3, <1>4, <2>1, Zenon DEF Commit
<1>7. x.first = main /\ Len(x.second) = 1 /\ x.second[1] = h
    OBVIOUS
<1>8. \A q \in Projects : x.tree[q] <= upstream[q]
    BY <1>1, <1>3, <1>4 DEF IInv, Tree
<1>. HIDE DEF x
<1>9. main' = Len(commits) + 1
    BY <1>1, <1>5, <1>6 DEF GitHubMerges
<1>10. remote' \in [Projects -> Nat] /\ \A q \in Projects : remote'[q] \in {0, remote[q]}
    <2>1. remote \in [Projects -> Nat]
        BY <1>1, RemoteMap, Zenon
    <2>2. remote' = [remote EXCEPT ![p] = 0] \/ remote' = remote
        BY Zenon DEF GitHubMerges
    <2>. QED BY <2>1, <2>2
<1>11. prs' \in [Projects -> [num : Nat, open : BOOLEAN, auto : {NoRequest} \cup Request]]
    BY <1>1, Zenon DEF TypeOK, GitHubMerges
<1>12. run' \in [Runners -> Run] /\ \A r \in Runners : run'[r] = run[r]
    BY <1>1, <1>5, Zenon DEF TypeOK
<1>. QED BY <1>1, <1>3, <1>5, <1>6, <1>7, <1>8, <1>9, <1>10, <1>11, <1>12, CommitStep, Zenon

\* Others commit to the base branch.
LEMMA DevelopIInv ==
    ASSUME IInv, Develop
    PROVE  IInv'
<1>1. TypeOK /\ main \in DOMAIN commits /\ commits \in Seq(Commit)
    BY Zenon DEF IInv, TypeOK
<1>2. commits[main].tree \in [Projects -> Nat] /\ main \in Nat
    BY <1>1, CommitTyped, Zenon
<1>. DEFINE x == [first |-> main, second |-> <<>>, tree |-> commits[main].tree]
<1>3. commits' = Append(commits, x) /\ UNCHANGED <<upstream, remote, prs, origin, run>>
    BY Zenon DEF Develop, Tree
<1>4. x \in Commit /\ x.first = main /\ Len(x.second) = 0
    BY <1>2, Zenon DEF Commit, Second
<1>5. \A q \in Projects : x.tree[q] <= upstream[q]
    BY <1>1, Zenon DEF IInv, Tree
<1>. HIDE DEF x
<1>6. main' = Len(commits) + 1
    BY <1>1, <1>3, <1>4 DEF Develop
<1>7. remote' \in [Projects -> Nat] /\ \A q \in Projects : remote'[q] \in {0, remote[q]}
    <2>1. remote' = remote
        BY <1>3, Zenon
    <2>. QED BY <1>1, <2>1, RemoteMap, Zenon
<1>8. prs' \in [Projects -> [num : Nat, open : BOOLEAN, auto : {NoRequest} \cup Request]]
    BY <1>1, <1>3, Zenon DEF TypeOK
<1>9. run' \in [Runners -> Run] /\ \A r \in Runners : run'[r] = run[r]
    BY <1>1, <1>3, Zenon DEF TypeOK
<1>10. ~(Len(x.second) = 1) /\ x.first \in DOMAIN commits
    BY <1>1, <1>4
<1>. QED BY <1>3, <1>4, <1>5, <1>6, <1>7, <1>8, <1>9, <1>10, CommitStep, Zenon

\* An upstream gets a new version, which no commit has yet.
LEMMA UpstreamMovesIInv ==
    ASSUME IInv, NEW p \in Projects, UpstreamMoves(p)
    PROVE  IInv'
<1>1. TypeOK /\ upstream \in [Projects -> Nat]
    BY Zenon DEF IInv, TypeOK
<1>2. UNCHANGED <<commits, main, remote, prs, origin, run>>
      /\ upstream' = [upstream EXCEPT ![p] = upstream[p] + 1]
    BY Zenon DEF UpstreamMoves
<1>3. upstream' \in [Projects -> Nat] /\ \A q \in Projects : upstream[q] <= upstream'[q]
    BY <1>1, <1>2
<1>4. TypeOK'
    BY <1>1, <1>2, <1>3, Zenon DEF TypeOK
<1>5. (\A c \in DOMAIN commits, q \in Projects : Tree(c)[q] <= upstream[q])'
    <2>. SUFFICES ASSUME NEW c \in DOMAIN commits, NEW q \in Projects
                  PROVE  commits[c].tree[q] <= upstream'[q]
        BY <1>2, Zenon DEF Tree
    <2>1. commits[c].tree[q] <= upstream[q]
        BY Zenon DEF IInv, Tree
    <2>2. commits[c].tree[q] \in Nat
        BY <1>1, CommitTyped, Zenon
    <2>3. upstream[q] \in Nat /\ upstream'[q] \in Nat
        BY <1>1, <1>3, Zenon
    <2>. QED BY <1>3, <2>1, <2>2, <2>3
<1>6. OnlyItsFolder' /\ SuccessMeansClean' /\ Grown(commits)'
    <2>1. OnlyItsFolder /\ SuccessMeansClean /\ Grown(commits)
        BY Zenon DEF IInv
    <2>2. OnlyItsFolder'
        BY <1>2, <2>1 DEF OnlyItsFolder, SyncHead, History, Tree
    <2>3. SuccessMeansClean' /\ Grown(commits)'
        BY <1>2, <2>1, Zenon DEF SuccessMeansClean
    <2>. QED BY <2>2, <2>3, Zenon
<1>7. (\A r \in Runners : origin[r].base \in History[main] /\ Prepared(r))'
    BY <1>2, Zenon DEF IInv, Prepared, Project, SyncHead, History, Tree
<1>. QED BY <1>4, <1>5, <1>6, <1>7 DEF IInv

(***************************************************************************)
(* The theorems.                                                           *)
(***************************************************************************)
\* The first commit has a history of its own.
LEMMA InitIInv ==
    ASSUME Init
    PROVE  IInv
<1>. DEFINE first == [first |-> 0, second |-> <<>>, tree |-> [p \in Projects |-> 0]]
<1>1. first \in Commit
    BY Zenon DEF Commit, Second
<1>2. first.first = 0 /\ Len(first.second) = 0 /\ \A p \in Projects : first.tree[p] = 0
    OBVIOUS
<1>3. commits = <<first>>
    BY Zenon DEF Init
<1>. HIDE DEF first
<1>4. commits \in Seq(Commit) /\ Len(commits) = 1 /\ DOMAIN commits = {1} /\ commits[1] = first
    BY <1>1, <1>3
<1>5. Grown(commits)
    BY <1>2, <1>4 DEF Grown
<1>6. 1 \in History[main]
    <2>1. PICK c \in 0 .. Len(commits) : c = 1
        BY <1>4
    <2>2. c \in Reachable(commits)[c]
        BY <1>4, <1>5, <2>1, ReachableEarlier
    <2>. QED BY <2>1, <2>2, Zenon DEF Init, History
<1>7. Resting \in Run /\ Resting.pc = "idle" /\ ~Resting.worktree.dir /\ ~Resting.worktree.added
    <2>1. NoWorktree \in Worktree /\ <<>> \in Seq(Projects)
        BY DEF NoWorktree, Worktree
    <2>. QED BY <2>1, Zenon DEF Resting, Run, Steps, NoWorktree
<1>8. TypeOK
    <2>1. main \in DOMAIN commits /\ upstream \in [Projects -> Nat]
          /\ remote \in [Projects -> 0 .. Len(commits)]
        BY <1>4 DEF Init
    <2>2. prs \in [Projects -> [num : Nat, open : BOOLEAN, auto : {NoRequest} \cup Request]]
        BY Zenon DEF Init
    <2>3. origin \in [Runners -> [base : DOMAIN commits, sync : [Projects -> 0 .. Len(commits)]]]
        BY <1>4 DEF Init
    <2>4. run \in [Runners -> Run] /\ \A r \in Runners : run[r].pc = "idle"
        BY <1>7, Zenon DEF Init
    <2>. QED BY <1>4, <2>1, <2>2, <2>3, <2>4, Zenon DEF TypeOK
<1>9. OnlyItsFolder /\ SuccessMeansClean
    <2>1. OnlyItsFolder
        BY Zenon DEF OnlyItsFolder, Init
    <2>2. SuccessMeansClean
        BY <1>7, Zenon DEF SuccessMeansClean, Init
    <2>. QED BY <2>1, <2>2, Zenon
<1>10. \A c \in DOMAIN commits, p \in Projects : Tree(c)[p] <= upstream[p]
    <2>1. upstream = [p \in Projects |-> 0] /\ \A c \in DOMAIN commits : Tree(c) = first.tree
        BY <1>4, Zenon DEF Init, Tree
    <2>2. \A c \in DOMAIN commits, p \in Projects : Tree(c)[p] = 0 /\ upstream[p] = 0
        BY <1>2, <2>1, Zenon
    <2>. QED BY <2>2
<1>11. \A r \in Runners : origin[r].base \in History[main] /\ Prepared(r)
    BY <1>6, <1>7, Zenon DEF Init, Prepared
<1>. QED BY <1>5, <1>8, <1>9, <1>10, <1>11 DEF IInv

\* A step that changes nothing.
LEMMA StutterIInv ==
    ASSUME IInv, UNCHANGED vars
    PROVE  IInv'
<1>1. UNCHANGED <<commits, main, upstream, remote, prs, origin, run>>
    BY DEF vars
<1>2. TypeOK'
    BY <1>1 DEF IInv, TypeOK
<1>3. OnlyItsFolder' /\ SuccessMeansClean' /\ Grown(commits)'
    BY <1>1 DEF IInv, OnlyItsFolder, SuccessMeansClean, SyncHead, History, Tree
<1>4. (\A c \in DOMAIN commits, p \in Projects : Tree(c)[p] <= upstream[p])'
    BY <1>1 DEF IInv, Tree
<1>5. (\A r \in Runners : origin[r].base \in History[main] /\ Prepared(r))'
    BY <1>1, Zenon DEF IInv, Prepared, Project, SyncHead, History, Tree
<1>. QED BY <1>2, <1>3, <1>4, <1>5 DEF IInv

\* Every step of the two commands, of GitHub and of the others keeps the
\* inductive invariant.
LEMMA NextIInv ==
    ASSUME IInv, Next
    PROVE  IInv'
<1>1. ASSUME NEW r \in Runners, NEW arg \in Projects \cup {"all"}, NEW f \in Flags,
             RunSyncBranch(r, arg, f[1], f[2])
      PROVE  IInv'
    BY <1>1, RunSyncBranchIInv, Zenon
<1>2. ASSUME NEW r \in Runners, NEW arg \in Projects \cup {"all"}, RunSyncPR(r, arg)
      PROVE  IInv'
    BY <1>2, RunSyncPRIInv, Zenon
<1>3. ASSUME NEW r \in Runners,
             FetchBase(r) \/ CreateSyncWorktree(r) \/ CreateSyncWorktreeFails(r) \/ PrepareBranch(r)
      PROVE  IInv'
    BY <1>3, FetchBaseIInv, CreateSyncWorktreeIInv, CreateSyncWorktreeFailsIInv, PrepareBranchIInv,
       Zenon
<1>4. ASSUME NEW r \in Runners,
             PullNothing(r) \/ PullMerges(r) \/ FindRemoteBranchHeadRef(r) \/ Push(r) \/ PushLosesAnswer(r)
      PROVE  IInv'
    BY <1>4, PullNothingIInv, PullMergesIInv, FindRemoteBranchHeadRefIInv, PushIInv,
       PushLosesAnswerIInv, Zenon
<1>5. ASSUME NEW r \in Runners, SyncBranchFails(r) \/ Persist(r) \/ Cleanup(r)
      PROVE  IInv'
    BY <1>5, SyncBranchFailsIInv, PersistIInv, CleanupIInv, Zenon
<1>6. ASSUME NEW r \in Runners,
             FetchSyncBranch(r) \/ SkipWithoutDiff(r) \/ SubtreeMetadataForSyncHead(r) \/ FindOpenPR(r)
      PROVE  IInv'
    BY <1>6, FetchSyncBranchIInv, SkipWithoutDiffIInv, SubtreeMetadataIInv, FindOpenPRIInv, Zenon
<1>7. ASSUME NEW r \in Runners,
             EnsureSyncLabels(r) \/ EditPR(r) \/ CreatePR(r) \/ MergePR(r)
      PROVE  IInv'
    BY <1>7, LabelsAndEditIInv, SyncPRFailsIInv, CreatePRIInv, MergePRIInv, Zenon
<1>8. ASSUME NEW r \in Runners, SyncPRFails(r) \/ Timeout(r) \/ Crash(r)
      PROVE  IInv'
    BY <1>8, SyncPRFailsIInv, TimeoutIInv, Zenon DEF SyncPRFails, Crash
<1>9. ASSUME NEW r \in Runners, Step(r)
      PROVE  IInv'
    BY <1>1, <1>2, <1>3, <1>4, <1>5, <1>6, <1>7, <1>8, <1>9 DEF Step
<1>10. ASSUME NEW p \in Projects, GitHubMerges(p) \/ UpstreamMoves(p)
       PROVE  IInv'
    BY <1>10, GitHubMergesIInv, UpstreamMovesIInv, Zenon
<1>. QED BY <1>9, <1>10, DevelopIInv, Zenon DEF Next

\* In every reachable state of any number of clones, folders and runs, refs
\* name commits that exist, parents precede their commits, no commit holds a
\* version its upstream never had, and every run has in hand what its next
\* command relies on.
THEOREM Invariance == Spec => []IInv
<1>1. Init => IInv
    BY InitIInv, Zenon
<1>2. IInv /\ [Next]_vars => IInv'
    BY NextIInv, StutterIInv, Zenon
<1>. QED BY <1>1, <1>2, PTL DEF Spec

\* The refs, requests and runs keep their types, and a run that is not
\* resting or cleaning up has a folder to work on.
THEOREM TypeCorrect == Spec => []TypeOK
<1>1. IInv => TypeOK
    BY Zenon DEF IInv
<1>. QED BY <1>1, Invariance, PTL

\* Whatever fails, dies, is repeated or runs side by side, a pushed sync branch
\* is a commit of the base branch or one subtree merge of its own upstream on
\* top of such a commit.
THEOREM PushedBranches == Spec => []OnlyItsFolder
<1>1. IInv => OnlyItsFolder
    BY Zenon DEF IInv
<1>. QED BY <1>1, Invariance, PTL

\* A run that reports success without --persist has removed its worktree, on
\* disk and in git.
THEOREM SuccessIsClean == Spec => []SuccessMeansClean
<1>1. IInv => SuccessMeansClean
    BY Zenon DEF IInv
<1>. QED BY <1>1, Invariance, PTL

(***************************************************************************)
(* What the steps do to the commits and to the branches.                   *)
(***************************************************************************)
\* Switching auto-merge on: MergePR is the only step that writes a request, and
\* it asked GitHub to compare the head with the one the trailers describe.
THEOREM TrailersMatch == Spec => TrailersNameHead
<1>. DEFINE A == \A p \in Projects : (prs'[p].auto # prs[p].auto /\ prs'[p].auto # NoRequest) =>
                    /\ remote[p] # 0
                    /\ prs'[p].auto.local = commits[remote[p]].first
                    /\ prs'[p].auto.upstream = commits[remote[p]].second
<1>1. ASSUME TypeOK, NEW q \in Projects, NEW x, x.auto \in {NoRequest, prs[q].auto},
             prs' = [prs EXCEPT ![q] = x]
      PROVE  A
    BY <1>1, Zenon DEF TypeOK
<1>2. ASSUME prs' = prs
      PROVE  A
    BY <1>2, Zenon
<1>3. ASSUME IInv, NEW r \in Runners, CreatePR(r)
      PROVE  A
    <2>1. PICK p : p = Project(r)
        OBVIOUS
    <2>2. TypeOK /\ p \in Projects
        BY <1>3, <2>1, ProjectTyped, Zenon DEF IInv, CreatePR, At
    <2>3. PICK x : x = [num |-> prs[p].num + 1, open |-> TRUE, auto |-> NoRequest]
        BY Zenon
    <2>4. prs' = [prs EXCEPT ![p] = x]
        BY <1>3, <2>1, <2>3, Zenon DEF CreatePR
    <2>. QED BY <1>1, <2>2, <2>3, <2>4
<1>4. ASSUME IInv, NEW p \in Projects, GitHubMerges(p)
      PROVE  A
    <2>1. PICK x : x = [prs[p] EXCEPT !.open = FALSE]
        BY Zenon
    <2>2. TypeOK /\ x.auto = prs[p].auto
        BY <1>4, <2>1 DEF IInv, TypeOK
    <2>3. prs' = [prs EXCEPT ![p] = x]
        BY <1>4, <2>1, Zenon DEF GitHubMerges
    <2>4. x.auto \in {NoRequest, prs[p].auto}
        BY <2>2, Zenon
    <2>5. prs'[p] = x /\ \A q \in Projects \ {p} : prs'[q] = prs[q]
        BY <1>4, <2>2, <2>3 DEF TypeOK
    <2>6. \A q \in Projects : prs'[q].auto \in {NoRequest, prs[q].auto}
        BY <2>4, <2>5, Zenon
    <2>. QED BY <2>6, Zenon
<1>5. ASSUME IInv, NEW r \in Runners, MergePR(r)
      PROVE  A
    <2>1. PICK p : p = Project(r)
        OBVIOUS
    <2>2. PICK h : h = run[r].head
        OBVIOUS
    <2>3. TypeOK /\ p \in Projects /\ h \in DOMAIN commits /\ remote[p] = h
        BY <1>5, <2>1, <2>2, ProjectTyped, Zenon DEF IInv, MergePR, At, Prepared
    <2>4. h # 0
        BY <2>3, CommitTyped, Zenon
    <2>5. prs \in [Projects -> [num : Nat, open : BOOLEAN, auto : {NoRequest} \cup Request]]
          /\ prs' = [prs EXCEPT ![p].auto = AutoMergeRequest(r)]
        BY <1>5, <2>1, <2>3, Zenon DEF TypeOK, MergePR
    <2>6. AutoMergeRequest(r).local = commits[h].first /\ AutoMergeRequest(r).upstream = commits[h].second
        BY <2>2, Zenon DEF AutoMergeRequest
    <2>7. prs'[p].auto = AutoMergeRequest(r) /\ \A q \in Projects \ {p} : prs'[q] = prs[q]
        BY <2>3, <2>5, Zenon
    <2>. QED BY <2>3, <2>4, <2>6, <2>7, Zenon
<1>6. ASSUME IInv, [Next]_vars
      PROVE  A
    <2>1. ASSUME NEW r \in Runners, Step(r), ~CreatePR(r), ~MergePR(r)
          PROVE  prs' = prs
        BY <2>1, Zenon DEF Step, RunSyncBranch, RunSyncPR, FetchBase, CreateSyncWorktree,
            CreateSyncWorktreeFails, PrepareBranch, PullNothing, PullMerges,
            FindRemoteBranchHeadRef, Push, PushLosesAnswer, SyncBranchFails, Persist, Cleanup,
            FetchSyncBranch, SkipWithoutDiff, SubtreeMetadataForSyncHead, FindOpenPR,
            EnsureSyncLabels, EditPR, SyncPRFails, Timeout, Crash, GitHub
    <2>2. ASSUME UNCHANGED vars \/ Develop \/ \E p \in Projects : UpstreamMoves(p)
          PROVE  prs' = prs
        BY <2>2, Zenon DEF vars, Develop, UpstreamMoves
    <2>. HIDE DEF A
    <2>. QED BY <1>2, <1>3, <1>4, <1>5, <1>6, <2>1, <2>2 DEF Next
<1>. QED BY <1>6, Invariance, PTL DEF Spec, TrailersNameHead

\* No step removes or rewrites a commit.
LEMMA CommitsKept ==
    ASSUME TypeOK, [Next]_vars
    PROVE  \A c \in DOMAIN commits : commits'[c] = commits[c]
<1>1. commits' = commits \/ \E x : commits' = Append(commits, x)
    <2>1. ASSUME NEW r \in Runners, Step(r)
          PROVE  commits' = commits \/ \E x : commits' = Append(commits, x)
        BY <2>1, Zenon DEF Step, RunSyncBranch, RunSyncPR, FetchBase, CreateSyncWorktree,
            CreateSyncWorktreeFails, PrepareBranch, PullNothing, PullMerges,
            FindRemoteBranchHeadRef, Push, PushLosesAnswer, SyncBranchFails, Persist, Cleanup,
            FetchSyncBranch, SkipWithoutDiff, SubtreeMetadataForSyncHead, FindOpenPR,
            EnsureSyncLabels, EditPR, CreatePR, MergePR, SyncPRFails, Timeout, Crash
    <2>2. ASSUME NEW p \in Projects, GitHubMerges(p) \/ UpstreamMoves(p)
          PROVE  commits' = commits \/ \E x : commits' = Append(commits, x)
        BY <2>2, Zenon DEF GitHubMerges, UpstreamMoves
    <2>3. ASSUME Develop \/ UNCHANGED vars
          PROVE  commits' = commits \/ \E x : commits' = Append(commits, x)
        BY <2>3, Zenon DEF Develop, vars
    <2>. QED BY <2>1, <2>2, <2>3 DEF Next
<1>2. commits \in Seq(Commit)
    BY Zenon DEF TypeOK
<1>. QED BY <1>1, <1>2

\* A branch moves only when a run pushes it, or is deleted after a merge.
LEMMA BranchMoves ==
    ASSUME TypeOK, [Next]_vars
    PROVE  \/ remote' = remote
           \/ \E p \in Projects : remote' = [remote EXCEPT ![p] = 0] /\ run' = run
           \/ \E r \in Runners : /\ run[r].pc = "push" /\ run'[r].pc \in {"reset", "cleanup"}
                                 /\ remote' = [remote EXCEPT ![Project(r)] = run[r].worktree.head]
<1>1. ASSUME NEW r \in Runners, Step(r), ~Push(r), ~PushLosesAnswer(r)
      PROVE  remote' = remote
    BY <1>1, Zenon DEF Step, RunSyncBranch, RunSyncPR, FetchBase, CreateSyncWorktree,
        CreateSyncWorktreeFails, PrepareBranch, PullNothing, PullMerges,
        FindRemoteBranchHeadRef, SyncBranchFails, Persist, Cleanup,
        FetchSyncBranch, SkipWithoutDiff, SubtreeMetadataForSyncHead, FindOpenPR,
        EnsureSyncLabels, EditPR, CreatePR, MergePR, SyncPRFails, Timeout, Crash, GitHub
<1>2. ASSUME NEW r \in Runners, Push(r) \/ PushLosesAnswer(r)
      PROVE  /\ run[r].pc = "push" /\ run'[r].pc \in {"reset", "cleanup"}
             /\ remote' = [remote EXCEPT ![Project(r)] = run[r].worktree.head]
    <2>1. run \in [Runners -> Run]
        BY Zenon DEF TypeOK
    <2>2. run[r] \in Run
        BY <2>1, Zenon
    <2>3. run[r].pc = "push" /\ remote' = [remote EXCEPT ![Project(r)] = run[r].worktree.head]
        BY <1>2, Zenon DEF Push, PushLosesAnswer, At
    <2>4. \/ NextProject(r)
          \/ run' = [run EXCEPT ![r].pc = "cleanup", ![r].err = TRUE]
        BY <1>2, Zenon DEF Push, PushLosesAnswer
    <2>5. run'[r].pc \in {"reset", "cleanup"}
        BY <2>1, <2>2, <2>4 DEF NextProject, Run
    <2>. QED BY <2>3, <2>5, Zenon
<1>3. ASSUME NEW p \in Projects, GitHubMerges(p)
      PROVE  remote' = remote \/ (remote' = [remote EXCEPT ![p] = 0] /\ run' = run)
    BY <1>3, Zenon DEF GitHubMerges
<1>4. ASSUME UNCHANGED vars \/ Develop \/ \E p \in Projects : UpstreamMoves(p)
      PROVE  remote' = remote
    BY <1>4, Zenon DEF vars, Develop, UpstreamMoves
<1>. QED BY <1>1, <1>2, <1>3, <1>4, Zenon DEF Next

\* A run that goes on, ends or starts, and has not just pulled, is not at the
\* point where it looks up and pushes its branch.
LEMMA Elsewhere ==
    ASSUME TypeOK, NEW r \in Runners, Step(r), ~PullNothing(r), ~PullMerges(r),
           ~FindRemoteBranchHeadRef(r), ~Timeout(r)
    PROVE  run'[r].pc \notin {"lease", "push"}
<1>1. run \in [Runners -> Run] /\ run[r] \in Run
    BY Zenon DEF TypeOK
<1>2. ASSUME NEW err, NEW w, run' = [run EXCEPT ![r] = Ended(r, err, w)]
      PROVE  run'[r].pc \notin {"lease", "push"}
    BY <1>1, <1>2, Zenon DEF Ended, Resting
<1>3. ASSUME NEW x, run' = [run EXCEPT ![r] = x], x.pc \notin {"lease", "push"}
      PROVE  run'[r].pc \notin {"lease", "push"}
    BY <1>1, <1>3, Zenon
<1>4. ASSUME NEW arg \in Projects \cup {"all"}, NEW f, RunSyncBranch(r, arg, f[1], f[2]) \/ RunSyncPR(r, arg)
      PROVE  run'[r].pc \notin {"lease", "push"}
    <2>1. ASSUME RunSyncBranch(r, arg, f[1], f[2])
          PROVE  run'[r].pc = "fetch"
        BY <1>1, <2>1, Zenon DEF RunSyncBranch, Resting
    <2>2. ASSUME RunSyncPR(r, arg)
          PROVE  run'[r].pc = "pr fetch"
        BY <1>1, <2>2, Zenon DEF RunSyncPR, Resting
    <2>. QED BY <1>4, <2>1, <2>2, Zenon
<1>5. ASSUME FetchBase(r) \/ CreateSyncWorktree(r) \/ PrepareBranch(r) \/ PushLosesAnswer(r)
      PROVE  run'[r].pc \notin {"lease", "push"}
    BY <1>1, <1>5 DEF FetchBase, CreateSyncWorktree, PrepareBranch, PushLosesAnswer, Run
<1>6. ASSUME \/ FetchSyncBranch(r) \/ SubtreeMetadataForSyncHead(r) \/ FindOpenPR(r)
             \/ EnsureSyncLabels(r) \/ EditPR(r),
             run' # [run EXCEPT ![r] = Failed(r)]
      PROVE  run'[r].pc \notin {"lease", "push"}
    <2>1. ASSUME FetchSyncBranch(r) \/ EnsureSyncLabels(r) \/ EditPR(r)
          PROVE  run'[r].pc \in {"pr diff", "pr write", "pr merge"}
        <3>1. \E pc \in {"pr diff", "pr write", "pr merge"} : run' = [run EXCEPT ![r].pc = pc]
            BY <1>6, <2>1, Zenon DEF FetchSyncBranch, EnsureSyncLabels, EditPR
        <3>. QED BY <1>1, <3>1, Zenon DEF Run
    <2>2. ASSUME SubtreeMetadataForSyncHead(r)
          PROVE  run'[r].pc = "pr find"
        BY <1>1, <2>2, Zenon DEF SubtreeMetadataForSyncHead, Run
    <2>3. ASSUME FindOpenPR(r)
          PROVE  run'[r].pc = "pr labels"
        BY <1>1, <2>3, Zenon DEF FindOpenPR, Run
    <2>. QED BY <1>6, <2>1, <2>2, <2>3, Zenon
<1>7. ASSUME CreateSyncWorktreeFails(r) \/ Persist(r) \/ Cleanup(r)
      PROVE  run'[r].pc \notin {"lease", "push"}
    BY <1>2, <1>7, Zenon DEF CreateSyncWorktreeFails, Persist, Cleanup
<1>8. ASSUME run' = [run EXCEPT ![r] = Failed(r)]
      PROVE  run'[r].pc \notin {"lease", "push"}
    BY <1>2, <1>8, Zenon DEF Failed
<1>9. ASSUME NextPR(r)
      PROVE  run'[r].pc \notin {"lease", "push"}
    <2>1. CASE Len(run[r].todo) = 1
        BY <1>2, <1>9, <2>1, Zenon DEF NextPR
    <2>2. CASE Len(run[r].todo) # 1
        BY <1>1, <1>9, <2>2, Zenon DEF NextPR, Run
    <2>. QED BY <2>1, <2>2, Zenon
<1>10. ASSUME SyncPRFails(r) \/ Crash(r) \/ SkipWithoutDiff(r) \/ MergePR(r)
       PROVE  run'[r].pc \notin {"lease", "push"}
    BY <1>8, <1>9, <1>10, Zenon DEF SyncPRFails, Crash, SkipWithoutDiff, MergePR
<1>11. ASSUME CreatePR(r)
       PROVE  run'[r].pc \notin {"lease", "push"}
    <2>1. CASE run' = [run EXCEPT ![r].pc = "pr merge", ![r].pr = prs[Project(r)].num + 1]
        BY <1>1, <2>1, Zenon DEF Run
    <2>. QED BY <1>8, <1>11, <2>1, Zenon DEF CreatePR
<1>12. ASSUME SyncBranchFails(r)
       PROVE  run'[r].pc \notin {"lease", "push"}
    <2>1. CASE run[r].pc = "fetch"
        BY <1>8, <1>12, <2>1, Zenon DEF SyncBranchFails
    <2>2. CASE run[r].pc # "fetch"
        BY <1>1, <1>12, <2>2 DEF SyncBranchFails, Run
    <2>. QED BY <2>1, <2>2, Zenon
<1>13. ASSUME Push(r)
       PROVE  run'[r].pc \notin {"lease", "push"}
    BY <1>1, <1>13, Zenon DEF Push, NextProject, Run
<1>. QED BY <1>4, <1>5, <1>6, <1>7, <1>8, <1>10, <1>11, <1>12, <1>13, Zenon DEF Step

\* What a run is about to push holds the newest version of the upstream that
\* there was when it pulled.
LEMMA PulledNewest ==
    ASSUME IInv, NEW r \in Runners, PullNothing(r) \/ PullMerges(r), run'[r].pc \in {"lease", "push"}
    PROVE  /\ run'[r].todo = run[r].todo /\ remote' = remote
           /\ commits'[run'[r].worktree.head].tree[Project(r)] = upstream[Project(r)]
<1>1. TypeOK /\ run \in [Runners -> Run] /\ run[r] \in Run
    BY DEF IInv, TypeOK
<1>2. run[r].pc = "pull" /\ run[r].todo # <<>>
    BY Zenon DEF IInv, TypeOK, PullNothing, PullMerges, At
<1>3. ~NextProject(r)
    BY <1>1 DEF NextProject, Run
<1>4. ASSUME PullNothing(r)
      PROVE  /\ run'[r].todo = run[r].todo /\ remote' = remote
             /\ commits'[run'[r].worktree.head].tree[Project(r)] = upstream[Project(r)]
    <2>1. run' = [run EXCEPT ![r].pc = "lease"] /\ commits' = commits /\ remote' = remote
          /\ Tree(run[r].worktree.head)[Project(r)] = upstream[Project(r)]
        BY <1>3, <1>4, Zenon DEF PullNothing, Pulled, GitHub
    <2>2. run'[r].todo = run[r].todo /\ run'[r].worktree = run[r].worktree
        BY <1>1, <2>1, Zenon DEF Run
    <2>. QED BY <2>1, <2>2, Zenon DEF Tree
<1>5. ASSUME PullMerges(r)
      PROVE  /\ run'[r].todo = run[r].todo /\ remote' = remote
             /\ commits'[run'[r].worktree.head].tree[Project(r)] = upstream[Project(r)]
    <2>1. PICK p : p = Project(r)
        OBVIOUS
    <2>2. PICK head : head = run[r].worktree.head
        OBVIOUS
    <2>3. PICK c : c = [first |-> head, second |-> <<p, upstream[p]>>,
                        tree |-> [Tree(head) EXCEPT ![p] = upstream[p]]]
        BY Zenon
    <2>4. commits' = Append(commits, c) /\ remote' = remote
          /\ run' = [run EXCEPT ![r].pc = "lease", ![r].worktree.head = Len(commits')]
        BY <1>3, <1>5, <2>1, <2>2, <2>3, Zenon DEF PullMerges, GitHub
    <2>5. p \in Projects /\ head \in DOMAIN commits
        BY <1>1, <1>2, <2>1, <2>2, ProjectTyped, MainReached, Zenon DEF IInv, Prepared
    <2>6. commits \in Seq(Commit) /\ Tree(head) \in [Projects -> Nat]
        BY <1>1, <2>5, CommitTyped, Zenon DEF TypeOK, Tree
    <2>7. c.tree[p] = upstream[p]
        BY <2>3, <2>5, <2>6, Zenon
    <2>8. commits'[Len(commits')] = c
        BY <2>4, <2>6
    <2>9. run'[r].todo = run[r].todo /\ run'[r].worktree.head = Len(commits')
        BY <1>1, <2>4, Zenon DEF Run, Worktree
    <2>. QED BY <2>1, <2>4, <2>7, <2>8, <2>9, Zenon
<1>. QED BY <1>4, <1>5

\* One run at a time: the branch stays behind what the run is about to push.
LEMMA AheadStep ==
    ASSUME \A r, s \in Runners : r = s, IInv, Ahead, [Next]_vars
    PROVE  Ahead'
<1>. SUFFICES ASSUME NEW r \in Runners, run'[r].pc \in {"lease", "push"}, remote'[Project(r)'] # 0
              PROVE  commits'[remote'[Project(r)']].tree[Project(r)']
                        <= commits'[run'[r].worktree.head].tree[Project(r)']
    BY Zenon DEF Ahead, Tree
<1>0. TypeOK
    BY Zenon DEF IInv
<1>1. PICK p : p = Project(r)
    OBVIOUS
<1>2. remote' = remote \/ \E q \in Projects : remote' = [remote EXCEPT ![q] = 0]
    BY <1>0, BranchMoves, Zenon
<1>3. CASE run[r].pc \in {"lease", "push"} /\ run'[r].todo = run[r].todo
           /\ run'[r].worktree.head = run[r].worktree.head
    <2>1. p \in Projects /\ run[r].worktree.head \in DOMAIN commits
        BY <1>0, <1>1, <1>3, ProjectTyped, Zenon DEF IInv, Prepared
    <2>2. Project(r)' = p
        BY <1>1, <1>3, Zenon DEF Project
    <2>3. remote'[p] = remote[p] /\ remote[p] \in DOMAIN commits
        <3>1. remote \in [Projects -> 0 .. Len(commits)] /\ commits \in Seq(Commit)
            BY <1>0, Zenon DEF TypeOK
        <3>2. remote'[p] = remote[p] /\ remote[p] # 0
            BY <1>2, <2>1, <2>2, <3>1, Zenon
        <3>. QED BY <1>0, <2>1, <3>2, RemoteTyped, Zenon
    <2>4. Tree(remote[p])[p] <= Tree(run[r].worktree.head)[p]
        BY <1>1, <1>3, <2>2, <2>3, Zenon DEF Ahead
    <2>5. commits'[remote[p]] = commits[remote[p]]
          /\ commits'[run[r].worktree.head] = commits[run[r].worktree.head]
        BY <1>0, <2>1, <2>3, CommitsKept, Zenon
    <2>. QED BY <1>3, <2>2, <2>3, <2>4, <2>5 DEF Tree
<1>4. CASE PullNothing(r) \/ PullMerges(r)
    <2>1. run'[r].todo = run[r].todo /\ remote' = remote
          /\ commits'[run'[r].worktree.head].tree[p] = upstream[p]
        BY <1>1, <1>4, PulledNewest, Zenon
    <2>2. p \in Projects
        BY <1>0, <1>1, <1>4, ProjectTyped, Zenon DEF PullNothing, PullMerges, At
    <2>3. Project(r)' = p
        BY <1>1, <2>1, Zenon DEF Project
    <2>4. remote[p] \in DOMAIN commits
        BY <1>0, <2>1, <2>2, <2>3, RemoteTyped, Zenon
    <2>5. commits'[remote[p]] = commits[remote[p]] /\ Tree(remote[p])[p] <= upstream[p]
        BY <1>0, <2>2, <2>4, CommitsKept, Zenon DEF IInv
    <2>. QED BY <2>1, <2>3, <2>5, Zenon DEF Tree
<1>5. CASE ~PullNothing(r) /\ ~PullMerges(r)
    <2>1. run \in [Runners -> Run] /\ run[r] \in Run
        BY <1>0, Zenon DEF TypeOK
    <2>2. CASE run' = run
        BY <1>3, <2>2, Zenon
    <2>3. CASE FindRemoteBranchHeadRef(r) \/ Timeout(r)
        <3>1. run[r].pc \in {"lease", "push"} /\ run'[r].todo = run[r].todo
              /\ run'[r].worktree.head = run[r].worktree.head
            BY <2>1, <2>3 DEF FindRemoteBranchHeadRef, Timeout, At, Run
        <3>. QED BY <1>3, <3>1, Zenon
    <2>4. CASE \E s \in Runners : Step(s)
        BY <1>0, <1>5, <2>3, <2>4, Elsewhere, Zenon
    <2>5. CASE ~\E s \in Runners : Step(s)
        <3>1. run' = run
            BY <2>5, Zenon DEF Next, GitHubMerges, UpstreamMoves, Develop, vars
        <3>. QED BY <2>2, <3>1, Zenon
    <2>. QED BY <2>4, <2>5, Zenon
<1>. QED BY <1>4, <1>5, Zenon

\* When one run at a time is under way, as the concurrency group of the
\* workflow has it, no failure, crash, lost answer or repeated run takes a sync
\* branch back to an older version of its upstream.
THEOREM OneRunNeverRegresses ==
    ASSUME \A r, s \in Runners : r = s
    PROVE  Spec => NeverRegresses
<1>. DEFINE A == \A p \in Projects : (remote[p] # 0 /\ remote'[p] # 0) =>
                     commits'[remote'[p]].tree[p] >= Tree(remote[p])[p]
<1>1. Init => Ahead
    <2>1. Init => \A r \in Runners : run[r] = Resting
        BY Zenon DEF Init
    <2>2. Resting.pc = "idle"
        BY Zenon DEF Resting
    <2>. QED BY <2>1, <2>2, Zenon DEF Ahead
<1>2. IInv /\ Ahead /\ [Next]_vars => Ahead'
    BY AheadStep, Zenon
<1>3. ASSUME IInv, Ahead, [Next]_vars
      PROVE  A
    <2>. SUFFICES ASSUME NEW p \in Projects, remote[p] # 0, remote'[p] # 0
                  PROVE  commits'[remote'[p]].tree[p] >= Tree(remote[p])[p]
        OBVIOUS
    <2>0. TypeOK /\ remote \in [Projects -> 0 .. Len(commits)] /\ commits \in Seq(Commit)
        BY <1>3, Zenon DEF IInv, TypeOK
    <2>1. remote[p] \in DOMAIN commits
        BY <2>0
    <2>2. commits'[remote[p]] = commits[remote[p]] /\ commits[remote[p]].tree[p] \in Nat
        BY <1>3, <2>0, <2>1, CommitsKept, CommitTyped, Zenon
    <2>3. CASE remote'[p] = remote[p]
        <3>1. commits'[remote'[p]].tree[p] = Tree(remote[p])[p] /\ Tree(remote[p])[p] \in Nat
            BY <2>2, <2>3, Zenon DEF Tree
        <3>2. PICK n \in Nat : n = Tree(remote[p])[p]
            BY <3>1, Zenon
        <3>3. n >= n
            BY ONLY <3>2
        <3>. QED BY <3>1, <3>2, <3>3, Zenon
    <2>4. CASE remote'[p] # remote[p]
        <3>1. PICK r \in Runners : /\ run[r].pc = "push"
                                   /\ remote' = [remote EXCEPT ![Project(r)] = run[r].worktree.head]
            BY <1>3, <2>0, <2>4, BranchMoves, Zenon
        <3>2. PICK h : h = run[r].worktree.head
            OBVIOUS
        <3>3. Project(r) = p /\ remote'[p] = h
            BY <2>0, <2>4, <3>1, <3>2, Zenon
        <3>4. h \in DOMAIN commits /\ Tree(remote[p])[p] <= Tree(h)[p]
            BY <1>3, <3>1, <3>2, <3>3, Zenon DEF IInv, Prepared, Ahead
        <3>5. commits'[h] = commits[h] /\ commits[h].tree[p] \in Nat
            BY <1>3, <2>0, <3>4, CommitsKept, CommitTyped, Zenon
        <3>. QED BY <2>2, <3>3, <3>4, <3>5, Zenon DEF Tree
    <2>. QED BY <2>3, <2>4, Zenon
<1>. QED BY <1>1, <1>2, <1>3, Invariance, PTL DEF Spec, NeverRegresses
=============================================================================
