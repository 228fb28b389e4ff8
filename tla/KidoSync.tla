------------------------------ MODULE KidoSync ------------------------------
(***************************************************************************)
(* kido sync-branch and kido sync-pr (misc/cmd/kido): for every forked     *)
(* folder, pull the upstream repository into a branch merge-bot/sync/<p>   *)
(* of its own, push it, open or update a pull request for it and switch    *)
(* auto-merge on.  Every step is a git or gh command that may fail, may    *)
(* take effect and still be reported as failed, may be cut short by the    *)
(* five-minute deadline of the command, or may be the last one before the  *)
(* process dies.  Other runs, developers and GitHub act in between.        *)
(*                                                                         *)
(* A commit is a number, the place of its record in commits: its first     *)
(* parent, its second parent (<<>> for none, <<c>> for a commit, <<p, v>>  *)
(* for version v of the upstream of p), and the version of every upstream  *)
(* that its tree holds.  0 stands for an absent branch.                    *)
(***************************************************************************)
EXTENDS Naturals, Sequences

CONSTANTS
    Projects,     \* the forked folders of repo-configuration.json
    Sorted,       \* the same in the order of RelPath.Compare
    Manual,       \* those with auto_sync set to false
    Runners,      \* the clones kido runs in, one run at a time in each
    Flags,        \* the combinations <<push, persist>> sync-branch is called with
    MaxUpstream,  \* bound on the versions of an upstream
    MaxCommits,   \* bound on the commits made
    MaxRuns       \* bound on the runs started

\* runSyncBranch and runSyncPR demand one project at least.
ASSUME SyncAssumption ==
    /\ Sorted # <<>>
    /\ Sorted \in Seq(Projects) /\ Projects = {Sorted[i] : i \in DOMAIN Sorted}
    /\ Manual \subseteq Projects
    /\ Flags \subseteq BOOLEAN \X BOOLEAN
    /\ MaxUpstream \in Nat /\ MaxCommits \in Nat \ {0} /\ MaxRuns \in Nat

VARIABLES
    commits,   \* the commits made so far
    main,      \* the head of the base branch on GitHub
    upstream,  \* the version of every upstream
    remote,    \* the head of merge-bot/sync/<p> on GitHub, or 0
    prs,       \* the last pull request for each branch, and its auto-merge request
    labels,    \* the labels that exist on GitHub
    origin,    \* the remote-tracking refs of each clone
    run,       \* what each clone is doing
    runs       \* the number of runs started

vars == <<commits, main, upstream, remote, prs, labels, origin, run, runs>>
GitHub == <<main, upstream, remote, prs, labels>>

Tree(c) == commits[c].tree

\* The commits that can be reached from each of cs, itself included.
Reachable(cs) ==
    LET reach[c \in 0 .. Len(cs)] ==
            IF c = 0 THEN {} ELSE {c} \cup reach[cs[c].first] \cup
                (IF Len(cs[c].second) = 1 THEN reach[cs[c].second[1]] ELSE {})
    IN  reach

History == Reachable(commits)

NoRequest == [head |-> 0]
NoWorktree == [dir |-> FALSE, added |-> FALSE, head |-> 0]
Resting == [pc |-> "idle", all |-> FALSE, todo |-> <<>>, push |-> FALSE, persist |-> FALSE, worktree |-> NoWorktree,
            lease |-> 0, head |-> 0, pr |-> 0, err |-> FALSE, canceled |-> FALSE]

Init ==
    /\ commits = <<[first |-> 0, second |-> <<>>, tree |-> [p \in Projects |-> 0]]>>
    /\ main = 1
    /\ upstream = [p \in Projects |-> 0]
    /\ remote = [p \in Projects |-> 0]
    /\ prs = [p \in Projects |-> [num |-> 0, open |-> FALSE, auto |-> NoRequest]]
    /\ labels = {}
    /\ origin = [r \in Runners |-> [base |-> 1, sync |-> [p \in Projects |-> 0]]]
    /\ run = [r \in Runners |-> Resting]
    /\ runs = 0

At(r, pc) == run[r].pc = pc /\ ~run[r].canceled
Project(r) == Head(run[r].todo)

\* The process ends: what is left is the error it returned and its worktree.
Ended(r, err, worktree) ==
    [Resting EXCEPT !.err = err, !.persist = run[r].persist,
                    !.worktree = [worktree EXCEPT !.head = 0]]

Failed(r) == Ended(r, TRUE, run[r].worktree)

(***************************************************************************)
(* Starting a run.                                                         *)
(***************************************************************************)
\* resolveProjects: "all" or one forked folder.
ResolveProjects(arg) == IF arg = "all" THEN Sorted ELSE <<arg>>

RunSyncBranch(r, arg, push, persist) ==
    /\ run[r].pc = "idle" /\ runs < MaxRuns
    /\ runs' = runs + 1
    /\ run' = [run EXCEPT ![r] = [Resting EXCEPT !.pc = "fetch", !.all = (arg = "all"),
                                                 !.todo = ResolveProjects(arg),
                                                 !.push = push, !.persist = persist]]
    /\ UNCHANGED <<commits, GitHub, origin>>

RunSyncPR(r, arg) ==
    /\ run[r].pc = "idle" /\ runs < MaxRuns
    /\ runs' = runs + 1
    /\ run' = [run EXCEPT ![r] = [Resting EXCEPT !.pc = "pr fetch", !.all = (arg = "all"),
                                                 !.todo = ResolveProjects(arg)]]
    /\ UNCHANGED <<commits, GitHub, origin>>

(***************************************************************************)
(* sync-branch.                                                            *)
(***************************************************************************)
FetchBase(r) ==
    /\ At(r, "fetch")
    /\ origin' = [origin EXCEPT ![r].base = main]
    /\ run' = [run EXCEPT ![r].pc = "worktree"]
    /\ UNCHANGED <<commits, GitHub, runs>>

CreateSyncWorktree(r) ==
    /\ At(r, "worktree")
    /\ run' = [run EXCEPT ![r].pc = "reset",
                          ![r].worktree = [dir |-> TRUE, added |-> TRUE, head |-> origin[r].base]]
    /\ UNCHANGED <<commits, GitHub, origin, runs>>

\* One of mkdir, git worktree add and git checkout fails; what is left over
\* depends on which one did and on the two removals of cleanup.
CreateSyncWorktreeFails(r) ==
    /\ run[r].pc = "worktree"
    /\ \E dir, added \in BOOLEAN :
          run' = [run EXCEPT ![r] = Ended(r, TRUE, [NoWorktree EXCEPT !.dir = dir, !.added = added])]
    /\ UNCHANGED <<commits, GitHub, origin, runs>>

\* Fault: the list is left one project late.
NextProjectOffByOne(r) ==
    run' = [run EXCEPT ![r].todo = Tail(@), ![r].lease = 0,
                       ![r].pc = IF Len(run[r].todo) = 0 THEN "cleanup" ELSE "reset"]

NextProject(r) ==
    run' = [run EXCEPT ![r].todo = Tail(@), ![r].lease = 0,
                       ![r].pc = IF Len(run[r].todo) = 1 THEN "cleanup" ELSE "reset"]

\* Fault: the worktree is not reset to the base.
PrepareBranchKeepsHead(r) ==
    /\ At(r, "reset")
    /\ run' = [run EXCEPT ![r].pc = "pull"]
    /\ UNCHANGED <<commits, GitHub, origin, runs>>

\* resetWorktreeToBase, deleteLocalBranchIfPresent and git checkout -B.
PrepareBranch(r) ==
    /\ At(r, "reset")
    /\ run' = [run EXCEPT ![r].pc = "pull", ![r].worktree.head = origin[r].base]
    /\ UNCHANGED <<commits, GitHub, origin, runs>>

Pulled(r) == IF run[r].push THEN run' = [run EXCEPT ![r].pc = "lease"] ELSE NextProject(r)

\* Fault: a failing pull counts as nothing to pull.
PullNothingOnError(r) ==
    /\ At(r, "pull")
    /\ Pulled(r)
    /\ UNCHANGED <<commits, GitHub, origin, runs>>

\* git subtree pull, with nothing to pull.
PullNothing(r) ==
    /\ At(r, "pull")
    /\ Tree(run[r].worktree.head)[Project(r)] = upstream[Project(r)]
    /\ Pulled(r)
    /\ UNCHANGED <<commits, GitHub, origin, runs>>

\* git subtree pull, which commits a merge of the upstream's head.
PullMerges(r) ==
    LET p == Project(r)
        head == run[r].worktree.head
    IN  /\ At(r, "pull")
        /\ Tree(head)[p] # upstream[p] /\ Len(commits) < MaxCommits
        /\ commits' = Append(commits, [first |-> head, second |-> <<p, upstream[p]>>,
                                       tree |-> [Tree(head) EXCEPT ![p] = upstream[p]]])
        /\ IF run[r].push
           THEN run' = [run EXCEPT ![r].pc = "lease", ![r].worktree.head = Len(commits')]
           ELSE NextProject(r)
        /\ UNCHANGED <<GitHub, origin, runs>>

FindRemoteBranchHeadRef(r) ==
    /\ At(r, "lease")
    /\ run' = [run EXCEPT ![r].pc = "push", ![r].lease = remote[Project(r)]]
    /\ UNCHANGED <<commits, GitHub, origin, runs>>

\* git push --force-with-lease: refused when the branch is not where
\* findRemoteBranchHeadRef saw it.
Push(r) ==
    /\ At(r, "push")
    /\ remote[Project(r)] = run[r].lease
    /\ remote' = [remote EXCEPT ![Project(r)] = run[r].worktree.head]
    /\ NextProject(r)
    /\ UNCHANGED <<commits, main, upstream, prs, labels, origin, runs>>

\* The push takes effect and is reported as failed.
PushLosesAnswer(r) ==
    /\ At(r, "push")
    /\ remote[Project(r)] = run[r].lease
    /\ remote' = [remote EXCEPT ![Project(r)] = run[r].worktree.head]
    /\ run' = [run EXCEPT ![r].pc = "cleanup", ![r].err = TRUE]
    /\ UNCHANGED <<commits, main, upstream, prs, labels, origin, runs>>

\* A command fails without effect: the error leaves the loop over projects.
SyncBranchFails(r) ==
    /\ run[r].pc \in {"fetch", "reset", "pull", "lease", "push"}
    /\ run' = IF run[r].pc = "fetch" THEN [run EXCEPT ![r] = Failed(r)]
              ELSE [run EXCEPT ![r].pc = "cleanup", ![r].err = TRUE]
    /\ UNCHANGED <<commits, GitHub, origin, runs>>

Persist(r) ==
    /\ run[r].pc = "cleanup" /\ run[r].persist
    /\ run' = [run EXCEPT ![r] = Ended(r, run[r].err, run[r].worktree)]
    /\ UNCHANGED <<commits, GitHub, origin, runs>>

Remains(removed, deleted) ==
    [NoWorktree EXCEPT !.added = ~removed, !.dir = ~removed /\ ~deleted]

\* Fault: the error of the removal is not reported.
CleanupErrorDropped(r) ==
    /\ run[r].pc = "cleanup" /\ ~run[r].persist
    /\ \E removed, deleted \in BOOLEAN :
          /\ run[r].canceled => ~removed
          /\ run' = [run EXCEPT ![r] = Ended(r, run[r].err, Remains(removed, deleted))]
    /\ UNCHANGED <<commits, GitHub, origin, runs>>

\* git worktree remove, which needs a token that is not canceled, then
\* RemoveAll, which does not.
Cleanup(r) ==
    /\ run[r].pc = "cleanup" /\ ~run[r].persist
    /\ \E removed, deleted \in BOOLEAN :
          /\ run[r].canceled => ~removed
          /\ run' = [run EXCEPT ![r] = Ended(r, run[r].err \/ ~removed \/ ~deleted,
                                             Remains(removed, deleted))]
    /\ UNCHANGED <<commits, GitHub, origin, runs>>

(***************************************************************************)
(* sync-pr.                                                                *)
(***************************************************************************)
NextPR(r) ==
    run' = IF Len(run[r].todo) = 1
           THEN [run EXCEPT ![r] = Ended(r, FALSE, NoWorktree)]
           ELSE [run EXCEPT ![r].todo = Tail(@), ![r].head = 0, ![r].pr = 0, ![r].pc = "pr fetch"]

FetchSyncBranch(r) ==
    /\ At(r, "pr fetch")
    /\ remote[Project(r)] # 0
    /\ origin' = [origin EXCEPT ![r].sync[Project(r)] = remote[Project(r)]]
    /\ run' = [run EXCEPT ![r].pc = "pr diff"]
    /\ UNCHANGED <<commits, GitHub, runs>>

\* git diff --quiet origin/<base>...origin/<branch> finds nothing when the
\* clone's base already contains the branch.
SkipWithoutDiff(r) ==
    /\ At(r, "pr diff")
    /\ origin[r].sync[Project(r)] \in History[origin[r].base]
    /\ NextPR(r)
    /\ UNCHANGED <<commits, GitHub, origin, runs>>

\* git diff finds a difference, or fails, which is taken for a difference;
\* then git rev-parse and subtreeMetadataForSyncHead.
SubtreeMetadataForSyncHead(r) ==
    LET head == origin[r].sync[Project(r)]
    IN  /\ At(r, "pr diff")
        /\ commits[head].second # <<>>
        /\ run' = [run EXCEPT ![r].pc = "pr find", ![r].head = head]
        /\ UNCHANGED <<commits, GitHub, origin, runs>>

FindOpenPR(r) ==
    /\ At(r, "pr find")
    /\ run' = [run EXCEPT ![r].pc = "pr labels",
                          ![r].pr = IF prs[Project(r)].open THEN prs[Project(r)].num ELSE 0]
    /\ UNCHANGED <<commits, GitHub, origin, runs>>

\* ensureLabelExists for the two labels in turn.  A failure after the first
\* gh label create leaves what was created.
EnsureSyncLabels(r) ==
    /\ At(r, "pr labels")
    /\ \/ /\ labels' = labels \cup {Project(r), "upstream-sync"}
          /\ run' = [run EXCEPT ![r].pc = "pr write"]
       \/ /\ labels' \in {labels \cup {Project(r)}, labels \cup {Project(r), "upstream-sync"}}
          /\ run' = [run EXCEPT ![r] = Failed(r)]
    /\ UNCHANGED <<commits, main, upstream, remote, prs, origin, runs>>

EditPR(r) ==
    /\ At(r, "pr write") /\ run[r].pr # 0
    /\ run' = [run EXCEPT ![r].pc = "pr merge"]
    /\ UNCHANGED <<commits, GitHub, origin, runs>>

\* gh pr create, which GitHub refuses while the branch has an open request,
\* then findOpenPR again.  The answer may be lost.
CreatePR(r) ==
    LET p == Project(r)
    IN  /\ At(r, "pr write") /\ run[r].pr = 0
        /\ ~prs[p].open
        /\ prs' = [prs EXCEPT ![p] = [num |-> @.num + 1, open |-> TRUE, auto |-> NoRequest]]
        /\ \/ run' = [run EXCEPT ![r].pc = "pr merge", ![r].pr = prs[p].num + 1]
           \/ run' = [run EXCEPT ![r] = Failed(r)]
        /\ UNCHANGED <<commits, main, upstream, remote, labels, origin, runs>>

AutoMergeRequest(r) ==
    LET c == commits[run[r].head]
    IN  [head |-> run[r].head, dir |-> Project(r), local |-> c.first, upstream |-> c.second]

\* Fault: --match-head-commit is left out.
MergePRUnmatched(r) ==
    LET p == Project(r)
    IN  /\ At(r, "pr merge")
        /\ prs[p].open /\ prs[p].num = run[r].pr
        /\ prs' = [prs EXCEPT ![p].auto = AutoMergeRequest(r)]
        /\ NextPR(r) \/ run' = [run EXCEPT ![r] = Failed(r)]
        /\ UNCHANGED <<commits, main, upstream, remote, labels, origin, runs>>

\* gh pr merge --auto --match-head-commit.  The answer may be lost.
MergePR(r) ==
    LET p == Project(r)
    IN  /\ At(r, "pr merge")
        /\ prs[p].open /\ prs[p].num = run[r].pr
        /\ remote[p] = run[r].head
        /\ prs' = [prs EXCEPT ![p].auto = AutoMergeRequest(r)]
        /\ NextPR(r) \/ run' = [run EXCEPT ![r] = Failed(r)]
        /\ UNCHANGED <<commits, main, upstream, remote, labels, origin, runs>>

SyncPRFails(r) ==
    /\ run[r].pc \in {"pr fetch", "pr diff", "pr find", "pr labels", "pr write", "pr merge"}
    /\ run' = [run EXCEPT ![r] = Failed(r)]
    /\ UNCHANGED <<commits, GitHub, origin, runs>>

(***************************************************************************)
(* The rest of the world.                                                  *)
(***************************************************************************)
\* withTimeout: the deadline of the command passes.
Timeout(r) ==
    /\ run[r].pc # "idle" /\ ~run[r].canceled
    /\ run' = [run EXCEPT ![r].canceled = TRUE]
    /\ UNCHANGED <<commits, GitHub, origin, runs>>

\* The process is killed.
Crash(r) ==
    /\ run[r].pc # "idle"
    /\ run' = [run EXCEPT ![r] = Failed(r)]
    /\ UNCHANGED <<commits, GitHub, origin, runs>>

\* GitHub merges the head of a request with auto-merge on, and may delete the branch.
GitHubMerges(p) ==
    /\ prs[p].open /\ prs[p].auto # NoRequest /\ remote[p] # 0 /\ Len(commits) < MaxCommits
    /\ commits' = Append(commits, [first |-> main, second |-> <<remote[p]>>,
                                   tree |-> [Tree(main) EXCEPT ![p] = Tree(remote[p])[p]]])
    /\ main' = Len(commits')
    /\ prs' = [prs EXCEPT ![p].open = FALSE]
    /\ \/ remote' = [remote EXCEPT ![p] = 0]
       \/ remote' = remote
    /\ UNCHANGED <<upstream, labels, origin, run, runs>>

Develop ==
    /\ Len(commits) < MaxCommits
    /\ commits' = Append(commits, [first |-> main, second |-> <<>>, tree |-> Tree(main)])
    /\ main' = Len(commits')
    /\ UNCHANGED <<upstream, remote, prs, labels, origin, run, runs>>

UpstreamMoves(p) ==
    /\ upstream[p] < MaxUpstream
    /\ upstream' = [upstream EXCEPT ![p] = @ + 1]
    /\ UNCHANGED <<commits, main, remote, prs, labels, origin, run, runs>>

Step(r) ==
    \/ \E arg \in Projects \cup {"all"} :
          \/ \E f \in Flags : RunSyncBranch(r, arg, f[1], f[2])
          \/ RunSyncPR(r, arg)
    \/ FetchBase(r) \/ CreateSyncWorktree(r) \/ CreateSyncWorktreeFails(r)
    \/ PrepareBranch(r) \/ PullNothing(r) \/ PullMerges(r)
    \/ FindRemoteBranchHeadRef(r) \/ Push(r) \/ PushLosesAnswer(r)
    \/ SyncBranchFails(r) \/ Persist(r) \/ Cleanup(r)
    \/ FetchSyncBranch(r) \/ SkipWithoutDiff(r) \/ SubtreeMetadataForSyncHead(r)
    \/ FindOpenPR(r) \/ EnsureSyncLabels(r) \/ EditPR(r) \/ CreatePR(r) \/ MergePR(r)
    \/ SyncPRFails(r) \/ Timeout(r) \/ Crash(r)

Next ==
    \/ \E r \in Runners : Step(r)
    \/ \E p \in Projects : GitHubMerges(p) \/ UpstreamMoves(p)
    \/ Develop

Spec == Init /\ [][Next]_vars

(***************************************************************************)
(* Properties.                                                             *)
(***************************************************************************)
Steps == {"idle", "fetch", "worktree", "reset", "pull", "lease", "push", "cleanup",
          "pr fetch", "pr diff", "pr find", "pr labels", "pr write", "pr merge"}

Second == {<<>>} \cup [1 .. 1 -> Nat] \cup (Projects \X Nat)
Commit == [first : Nat, second : Second, tree : [Projects -> Nat]]
Request == [head : Nat \ {0}, dir : Projects, local : Nat, upstream : Second]

Worktree == [dir : BOOLEAN, added : BOOLEAN, head : Nat]
Run == [pc : Steps, all : BOOLEAN, todo : Seq(Projects), push : BOOLEAN, persist : BOOLEAN,
        worktree : Worktree, lease : Nat, head : Nat, pr : Nat, err : BOOLEAN, canceled : BOOLEAN]

\* Refs name commits that exist, and a run that is working on a project has one.
TypeOK ==
    /\ commits \in Seq(Commit) /\ main \in DOMAIN commits
    /\ upstream \in [Projects -> Nat] /\ remote \in [Projects -> 0 .. Len(commits)]
    /\ prs \in [Projects -> [num : Nat, open : BOOLEAN, auto : {NoRequest} \cup Request]]
    /\ origin \in [Runners -> [base : DOMAIN commits, sync : [Projects -> 0 .. Len(commits)]]]
    /\ run \in [Runners -> Run]
    /\ \A r \in Runners : run[r].pc \notin {"idle", "cleanup"} => run[r].todo # <<>>

\* A commit of the base branch, or one subtree merge of the upstream of p on
\* top of such a commit.
SyncHead(p, head) ==
    LET c == commits[head]
    IN  \/ head \in History[main]
        \/ /\ c.first \in History[main]
           /\ c.second = <<p, c.tree[p]>>
           /\ \A q \in Projects \ {p} : c.tree[q] = Tree(c.first)[q]

\* runSyncBranchProject, resetWorktreeToBase: a pushed branch is a commit of
\* the base branch, or one subtree merge of its own upstream on top of such a
\* commit: no update of another folder and no leftover of an earlier run in it.
OnlyItsFolder ==
    \A p \in Projects : remote[p] # 0 => SyncHead(p, remote[p])

\* runSyncBranchProject, when one run at a time is under way (the concurrency
\* group of the workflow): failures, crashes, lost answers and repeated runs
\* never take a sync branch back to an older upstream.
NeverRegresses ==
    [][\A p \in Projects : (remote[p] # 0 /\ remote'[p] # 0) =>
          commits'[remote'[p]].tree[p] >= Tree(remote[p])[p]]_vars

\* runSyncBranch and the deferred cleanup: a run that returned no error and was
\* not asked to keep its worktree has left none behind, on disk or in git.
SuccessMeansClean ==
    \A r \in Runners : (run[r].pc = "idle" /\ ~run[r].err /\ ~run[r].persist) =>
        ~run[r].worktree.dir /\ ~run[r].worktree.added

\* runSyncPRProject: when auto-merge is switched on, the mergebot trailers name
\* the parents of the commit the branch then has, however late the answers came.
TrailersNameHead ==
    [][\A p \in Projects : (prs'[p].auto # prs[p].auto /\ prs'[p].auto # NoRequest) =>
          /\ remote[p] # 0
          /\ prs'[p].auto.local = commits[remote[p]].first
          /\ prs'[p].auto.upstream = commits[remote[p]].second]_vars

\* Commits are made after their parents.
Grown(cs) ==
    \A c \in 1 .. Len(cs) :
        /\ cs[c].first \in 0 .. (c - 1)
        /\ Len(cs[c].second) = 1 => cs[c].second[1] \in 0 .. (c - 1)

\* What a run that is about to pull, push or ask for a merge has in hand.
Prepared(r) ==
    /\ run[r].pc = "pull" => run[r].worktree.head \in History[main]
    /\ run[r].pc \in {"lease", "push"} =>
          /\ run[r].worktree.head \in DOMAIN commits
          /\ SyncHead(Project(r), run[r].worktree.head)
    /\ run[r].pc = "pr diff" => origin[r].sync[Project(r)] # 0
    /\ run[r].pc \in {"pr find", "pr labels", "pr write", "pr merge"} =>
          run[r].head \in DOMAIN commits

\* The inductive invariant.
IInv ==
    /\ TypeOK /\ OnlyItsFolder /\ SuccessMeansClean /\ Grown(commits)
    /\ \A c \in DOMAIN commits, p \in Projects : Tree(c)[p] <= upstream[p]
    /\ \A r \in Runners : origin[r].base \in History[main] /\ Prepared(r)

\* When one run at a time is under way, what it is about to push is no older
\* than what the branch has.
Ahead ==
    \A r \in Runners :
        LET p == Project(r)
        IN  (run[r].pc \in {"lease", "push"} /\ remote[p] # 0) =>
                Tree(remote[p])[p] <= Tree(run[r].worktree.head)[p]

\* The comment on AutoSync: a folder with auto_sync set to false is updated
\* manually only.
ManualOnlyByName ==
    \A r \in Runners : (run[r].all /\ run[r].pc \in {"pull", "push"}) => Project(r) \notin Manual
=============================================================================
