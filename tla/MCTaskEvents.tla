--------------------------- MODULE MCTaskEvents ---------------------------
(***************************************************************************)
(* A small instance of TaskEvents: second depends on first, first may be   *)
(* tried twice; stray has the idempotency key of second's completion.      *)
(***************************************************************************)
EXTENDS TaskEvents, TLC

CONSTANTS r1, w1, w2, first, second, doneFirst, doneSecond, stray, p1, p2

MCForever == 9
MCTasks == {first, second}
MCRunOf == [t \in MCTasks |-> r1]
MCDeps == (first :> {}) @@ (second :> {first})
MCRank == (first :> 0) @@ (second :> 1)
MCMaxAttempts == (first :> 2) @@ (second :> 1)
MCDelay == [t \in MCTasks |-> 0]
MCDeadline == [t \in MCTasks |-> MCForever]

MCCompletionOf == (first :> doneFirst) @@ (second :> doneSecond)
MCEvents == {doneFirst, doneSecond, stray}
MCKeyOf == (doneFirst :> 1) @@ (doneSecond :> 2) @@ (stray :> 2)
MCEventRank == (doneFirst :> 0) @@ (doneSecond :> 1) @@ (stray :> 2)
MCEventDelay == [e \in MCEvents |-> 0]
=============================================================================
