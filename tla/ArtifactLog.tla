----------------------------- MODULE ArtifactLog -----------------------------
(***************************************************************************)
(* What the Blackboard promises to the agents that share it: every logical *)
(* artifact (run, task, type) has a log of versions, each version is one   *)
(* immutable artifact that is used nowhere else, and a log only grows, one *)
(* version at a time.  Blackboard implements it.                           *)
(***************************************************************************)
EXTENDS Sequences, Naturals

CONSTANTS Artifacts, Slots

VARIABLE log  \* the artifacts of every slot, version 1 first

Init == log = [s \in Slots |-> << >>]

Publish(s, a) ==
  /\ \A t \in Slots : \A v \in DOMAIN log[t] : log[t][v] # a
  /\ log' = [log EXCEPT ![s] = Append(@, a)]

Next == \E s \in Slots, a \in Artifacts : Publish(s, a)

Spec == Init /\ [][Next]_log
=============================================================================
