--------------------------- MODULE MCOrderedMap ---------------------------
(* OrderedMap with small chunks, so that a few keys fill several and compact. *)
EXTENDS OrderedMap, TLC

CONSTANTS k1, k2, k3

Symmetry == Permutations({k1, k2, k3})
=============================================================================
