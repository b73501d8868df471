--------------------------- MODULE MCDagScheduler ---------------------------
(***************************************************************************)
(* Small instances of DagScheduler.                                        *)
(*   Fan: three dependents of nA compete for two slots; nE joins the rest. *)
(*   Chain: nC depends on nB and nB on nA.                                 *)
(***************************************************************************)
EXTENDS DagScheduler, TLC

CONSTANTS nA, nB, nC, nD, nE

FanNodes == {nA, nB, nC, nD, nE}
FanDeps ==
  (nA :> {}) @@ (nB :> {nA}) @@ (nC :> {nA}) @@ (nD :> {nA}) @@ (nE :> {nA, nB, nC})
FanAttempts == [n \in FanNodes |-> IF n \in {nB, nC} THEN 2 ELSE 1]

ChainNodes == {nA, nB, nC}
ChainDeps == (nA :> {}) @@ (nB :> {nA}) @@ (nC :> {nB})
ChainAttempts == [n \in ChainNodes |-> 1]
=============================================================================
