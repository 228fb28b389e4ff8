----------------------------- MODULE MCFsxWalk -----------------------------
(* Two trees for FsxWalk.  The small one comes with every choice of .git  *)
(* and .gitignore files up to the bounds below.  The deep one has enough  *)
(* nested .gitignore files for a slice of matchers to have spare capacity.*)
EXTENDS FsxWalk

CONSTANTS p1, p2

Symmetry == {[p \in {p1, p2} |-> p], [p \in {p1, p2} |-> IF p = p1 THEN p2 ELSE p1]}

Only(kind) == [kind |-> kind, ignore |-> {}, keep |-> {}]
Ignoring(S) == [kind |-> "parsed", ignore |-> S, keep |-> {}]
Keeping(S) == [kind |-> "parsed", ignore |-> {}, keep |-> S]

\* ./a/b/f, with one rule at most in each .gitignore and one oddity at most
\* in the whole tree (an unreadable or malformed file, a .git symlink).
SmallPaths == {<<"a">>, <<"a", "b">>, <<"a", "b", "f">>}
SmallDirs == {<<>>, <<"a">>, <<"a", "b">>}
SmallRoots == SmallDirs \cup {<<"a", "b", "f">>, <<"z">>}
Rules(dir) == {Only("absent"), Only("malformed"), Only("error")} \cup
    UNION {{Ignoring({RelativeTo(q, dir)}), Keeping({RelativeTo(q, dir)})} :
             q \in {r \in SmallPaths : dir \in Above(r)}}
Odd(f) == {<<d, "git">> : d \in {e \in SmallDirs : f.git[e] \in {"error", "other"}}} \cup
          {<<d, "ignore">> : d \in {e \in SmallDirs : f.ignore[e].kind \in {"error", "malformed"}}}
SmallFileSystems ==
    {f \in [git : [SmallDirs -> {"repo", "absent", "other", "error"}],
            ignore : {g \in [SmallDirs -> UNION {Rules(d) : d \in SmallDirs}] :
                         \A d \in SmallDirs : g[d] \in Rules(d)}] :
        Cardinality(Odd(f)) <= 1}

\* ./a/b with two directories c and d in it, and a .gitignore everywhere.
DeepPaths == {<<"a">>, <<"a", "b">>, <<"a", "b", "c">>, <<"a", "b", "d">>}
DeepDirs == DeepPaths \cup {<<>>}
DeepContents == {Ignoring({<<"x">>}), Ignoring({<<"y">>})}
DeepFileSystems ==
    {[git |-> [d \in DeepDirs |-> IF d = <<>> THEN "repo" ELSE "absent"],
      ignore |-> [d \in DeepDirs |-> Ignoring({<<"x">>})]]}
DeepRoot == {<<"a", "b">>}

\* The same, one level deeper, walked from ./a/b/c.
SparePaths == DeepPaths \cup {<<"a", "b", "c", "e">>}
SpareDirs == SparePaths \cup {<<>>}
SpareFileSystems ==
    {[git |-> [d \in SpareDirs |-> IF d = <<>> THEN "repo" ELSE "absent"],
      ignore |-> [d \in SpareDirs |-> Ignoring({<<"x">>})]]}
SpareRoot == {<<"a", "b", "c">>}
=============================================================================
