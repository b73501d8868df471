--------------------------- MODULE TaskLifecycle ---------------------------
(***************************************************************************)
(* What the task queue promises to whoever submits tasks, without leases,  *)
(* workers, clocks or checkpoints: tasks come in closed under their        *)
(* dependencies, a task runs once its dependencies have succeeded, a run   *)
(* either succeeds or is taken back, and the number of runs is bounded.    *)
(* TaskQueue implements it (TaskQueue!ImplementsLifecycle).                *)
(***************************************************************************)
EXTENDS Integers

CONSTANTS Tasks, Deps, MaxAttempts

VARIABLES
  phase,  \* where the submitter sees the task: unknown, waiting, running,
          \* succeeded or failed
  tries   \* how often the task was started

Init ==
  /\ phase = [t \in Tasks |-> "unknown"]
  /\ tries = [t \in Tasks |-> 0]

Submit(batch) ==
  /\ \A t \in batch :
       /\ phase[t] = "unknown"
       /\ \A d \in Deps[t] : d \in batch \/ phase[d] # "unknown"
  /\ phase' = [t \in Tasks |-> IF t \in batch THEN "waiting" ELSE phase[t]]
  /\ UNCHANGED tries

Start(t) ==
  /\ phase[t] = "waiting"
  /\ tries[t] < MaxAttempts[t]
  /\ \A d \in Deps[t] : phase[d] = "succeeded"
  /\ phase' = [phase EXCEPT ![t] = "running"]
  /\ tries' = [tries EXCEPT ![t] = @ + 1]

Succeed(t) ==
  /\ phase[t] = "running"
  /\ phase' = [phase EXCEPT ![t] = "succeeded"]
  /\ UNCHANGED tries

\* Runs that got lost are taken back together; the last one fails its task.
TakeBack(lost) ==
  /\ \A t \in lost : phase[t] = "running"
  /\ phase' = [t \in Tasks |->
                 IF t \notin lost THEN phase[t]
                 ELSE IF tries[t] < MaxAttempts[t] THEN "waiting" ELSE "failed"]
  /\ UNCHANGED tries

Next ==
  \/ \E batch \in SUBSET Tasks : Submit(batch)
  \/ \E t \in Tasks : Start(t) \/ Succeed(t)
  \/ \E lost \in SUBSET Tasks : TakeBack(lost)

Spec == Init /\ [][Next]_<<phase, tries>>
=============================================================================
