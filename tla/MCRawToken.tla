----------------------------- MODULE MCRawToken -----------------------------
(* RawToken for TLC.  The run checks liveness, so there is no symmetry.     *)
EXTENDS RawToken
=============================================================================
