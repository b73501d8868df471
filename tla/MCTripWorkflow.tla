--------------------------- MODULE MCTripWorkflow ---------------------------
(***************************************************************************)
(* A small instance of TripWorkflow: the calls and the sessions all work   *)
(* on one run.                                                             *)
(***************************************************************************)
EXTENDS TripWorkflow

CONSTANTS run, c1, c2, s1, s2

MCCalls == {c1, c2}
MCRunOfCall == [c \in MCCalls |-> run]
MCSessions == {s1, s2}
MCReviews ==
  {{"planning", "critic"}, {"mobility", "coordinator"}}
MCSlots == {SlotOf(run, t) : t \in Tasks}
MCRunOf == [s \in MCSlots |-> run]
MCArtifacts ==
  {OutputId(c, t) : c \in Calls, t \in Tasks} \union
  {RepairId(x, k, t) : x \in Sessions, k \in 1..MaxRounds, t \in RepairTasks}
=============================================================================
