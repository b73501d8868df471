---------------------------- MODULE MCTaskQueue ----------------------------
(***************************************************************************)
(* A small instance of TaskQueue: second depends on first, is in another   *)
(* run and has the better priority; first may be tried three times, second *)
(* twice and only before its deadline.                                     *)
(***************************************************************************)
EXTENDS TaskQueue, TLC

CONSTANTS r1, r2, w1, w2, first, second

MCForever == 9
MCRuns == {r1, r2}
MCWorkers == {w1, w2}
MCTasks == {first, second}
MCRunOf == (first :> r1) @@ (second :> r2)
MCDeps == (first :> {}) @@ (second :> {first})
MCRank == (first :> 1) @@ (second :> 0)
MCMaxAttempts == (first :> 3) @@ (second :> 2)
MCDelay == (first :> 1) @@ (second :> 0)
MCDeadline == (first :> MCForever) @@ (second :> 6)
=============================================================================
