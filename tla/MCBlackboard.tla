---------------------------- MODULE MCBlackboard ----------------------------
(***************************************************************************)
(* A small instance of the Blackboard: two runs, one of them with two      *)
(* slots, and four artifact ids.                                           *)
(***************************************************************************)
EXTENDS BlackboardLineage

CONSTANTS r1, r2, intel, matrix, other, a1, a2, a3, a4

MCArtifacts == {a1, a2, a3, a4}
MCSlots == {intel, matrix, other}
MCRunOf == (intel :> r1) @@ (matrix :> r1) @@ (other :> r2)
=============================================================================
