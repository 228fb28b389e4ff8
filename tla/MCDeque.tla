------------------------------ MODULE MCDeque ------------------------------
(* Deque on a machine whose ints are small: capacities grow from 4 to 8 and  *)
(* then, as doubling would overflow, one by one.                             *)
EXTENDS Deque
=============================================================================
