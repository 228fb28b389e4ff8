---------------------------- MODULE MCKidoSync ----------------------------
(* Small instances of KidoSync. *)
EXTENDS KidoSync

CONSTANTS p1, p2, r1, r2

OneProject == <<p1>>
TwoProjects == <<p1, p2>>
AnyFlags == BOOLEAN \X BOOLEAN
Pushing == {<<TRUE, FALSE>>}
Symmetry == {[r \in {r1, r2} |-> r], [r \in {r1, r2} |-> IF r = r1 THEN r2 ELSE r1]}
=============================================================================
