---------------------------- MODULE MCRunClients ----------------------------
(***************************************************************************)
(* A tab and other callers: two runs, one after the other.                 *)
(***************************************************************************)
EXTENDS RunClients, TLC
CONSTANTS r1, r2, k1, t1
MCSymmetry == Permutations({r1, r2})
=============================================================================
