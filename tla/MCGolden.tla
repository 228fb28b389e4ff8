------------------------------ MODULE MCGolden ------------------------------
(* Two tests in one snapshot directory, beside one that no test uses.      *)
EXTENDS Golden

CONSTANTS t1, t2

\* Every spelling of up to five bytes, as a path for the first test and, after
\* a "/", as a working directory.
Bytes == {"/", ".", "a", "b"}
Strings(n) == UNION {[1..k -> Bytes \ {"b"}] : k \in 1..n}
TwoRoots == {<<"r">>, <<"s">>}
BothInR == t1 :> <<"r">> @@ t2 :> <<"r">>
SomeSpellings ==
    t1 :> Strings(5) @@
    t2 :> {<<"b">>, <<".", "/", "a", "/", "/", "b">>, <<"a", "/", "a", "/", "b">>,
           <<".", ".", "/", ".", ".", "/">>}
SomeWorkingDirs == {<<"/">> \o s : s \in Strings(5) \cup {<<>>}}

Tree(files, dirs, links) ==
    [n \in files \cup dirs \cup links |->
        IF n \in files THEN "file" ELSE IF n \in dirs THEN "dir" ELSE "symlink"]
R == <<"r">>
S == <<"s">>
A == <<"a">>
B == <<"b">>
SomeTrees ==
    {Tree({}, {<<>>, <<S>>}, {}),
     Tree({<<R, A>>, <<R, B>>, <<S, A, B>>}, {<<>>, <<R>>, <<S>>, <<S, A>>}, {}),
     Tree({<<R, A, A, A>>, <<R, A, B>>}, {<<>>, <<R>>, <<R, A>>, <<R, A, A>>, <<R, B>>, <<S>>}, {}),
     Tree({<<R, B>>}, {<<>>, <<R>>}, {<<R, A>>})}
=============================================================================
