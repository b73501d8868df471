---------------------------- MODULE OnePlusFour ----------------------------
(***************************************************************************)
(* Calls of OnePlusFourWorkflow.run (packages/workflow/orchestrator.py):   *)
(* two research agents at the same time, then the route matrix, the        *)
(* planner and the critic, each publishing version 1 of its artifact on    *)
(* the Blackboard.  Several calls, also for one run id, share the          *)
(* Blackboard.                                                             *)
(*                                                                         *)
(* A service is awaited without a bound; it returns an artifact of the     *)
(* run, or it raises or answers for another run, which ends the call.      *)
(***************************************************************************)
EXTENDS Blackboard

CONSTANTS
  Calls,     \* calls of run
  RunOfCall  \* their run_id

Tasks == {"destination", "mobility", "routes", "planning", "critic"}
Research == {"destination", "mobility"}

\* The parents a task gives its artifact.
Inputs ==
  [destination |-> {}, mobility |-> {}, routes |-> Research,
   planning |-> Research \union {"routes"},
   critic |-> Research \union {"routes", "planning"}]

\* The artifact id of an output: the services choose it, for every call a new
\* one; that of the route matrix is a literal.
OutputId(c, t) == IF t = "routes" THEN <<"harness", "routes">> ELSE <<c, t>>

SlotOf(r, t) == <<r, t>>

ASSUME CallsAssumption ==
  /\ \A c \in Calls, t \in Tasks :
       SlotOf(RunOfCall[c], t) \in Slots /\ RunOf[SlotOf(RunOfCall[c], t)] = RunOfCall[c]
  /\ \A c \in Calls, t \in Tasks : OutputId(c, t) \in Artifacts
  /\ \A c \in Calls : c # "harness"
  /\ MaxVersion >= 1

VARIABLES
  progress,  \* where the coroutine of a task of a call is
  result     \* how the call ended

callVars == <<progress, result>>

CallInit ==
  /\ progress = [c \in Calls |-> [t \in Tasks |-> "waiting"]]
  /\ result = [c \in Calls |-> "idle"]

BeginCall(c) ==
  /\ result[c] = "idle"
  /\ result' = [result EXCEPT ![c] = "running"]
  /\ progress' = [progress EXCEPT ![c] =
                    [t \in Tasks |-> IF t \in Research THEN "working" ELSE "waiting"]]
  /\ UNCHANGED vars

\* Mutant of Advance: the tasks that were waiting are left waiting.
AdvanceAlone(c, t) == [progress[c] EXCEPT ![t] = "done"]

\* A task is started when its inputs are published: gather returns, or the
\* previous task does.
Advance(c, t) ==
  LET done == {u \in Tasks : progress[c][u] = "done"} \union {t} IN
    [u \in Tasks |->
       IF u = t THEN "done"
       ELSE IF progress[c][u] = "waiting" /\ Inputs[u] \subseteq done THEN "working"
       ELSE progress[c][u]]

\* Mutant of Accepts: the version that follows whatever is there.
AcceptsNext(c, t) ==
  LET s == SlotOf(RunOfCall[c], t) IN
    /\ head[s] < MaxVersion
    /\ ~ Stored(OutputId(c, t))
    /\ Write(OutputId(c, t), s, head[s] + 1, {OutputId(c, d) : d \in Inputs[t]}, head[s])

\* _publish: version 1 of a slot that has none.
Accepts(c, t) ==
  Write(OutputId(c, t), SlotOf(RunOfCall[c], t), 1,
        {OutputId(c, d) : d \in Inputs[t]}, 0)

Publish(c, t) ==
  /\ progress[c][t] = "working"
  /\ Accepts(c, t)
  /\ progress' = [progress EXCEPT ![c] = Advance(c, t)]
  /\ result' = [result EXCEPT ![c] = IF t = "critic" THEN "returned" ELSE @]

\* The slot or the artifact id is taken.
Refused(c, t) ==
  \/ head[SlotOf(RunOfCall[c], t)] # 0
  \/ Stored(OutputId(c, t))

\* The call raises what the task raises; gather leaves the other research task
\* running.
Fail(c, t) ==
  /\ progress[c][t] = "working"
  /\ progress' = [progress EXCEPT ![c][t] = "failed"]
  /\ result' = [result EXCEPT ![c] = "raised"]
  /\ UNCHANGED vars

ServiceFails(c, t) == Fail(c, t)
PublishRefused(c, t) == Refused(c, t) /\ Fail(c, t)

TaskEnds(c, t) == Publish(c, t) \/ ServiceFails(c, t) \/ PublishRefused(c, t)

CallStep == \E c \in Calls : BeginCall(c) \/ \E t \in Tasks : TaskEnds(c, t)

-----------------------------------------------------------------------------
\* Every variable of the calls stays in its type.
CallTypeOK ==
  /\ progress \in [Calls -> [Tasks -> {"waiting", "working", "done", "failed"}]]
  /\ result \in [Calls -> {"idle", "running", "returned", "raised"}]

\* The five artifacts of a call that returned are its own, whatever other calls
\* of the run did at the same time: the first versions of the run are those it
\* published, and their lineage leads to its research.
ResultIsOneCall ==
  \A c \in Calls : result[c] = "returned" => \A t \in Tasks :
    /\ Get(SlotOf(RunOfCall[c], t), 1) = OutputId(c, t)
    /\ record[OutputId(c, t)].parents = {OutputId(c, d) : d \in Inputs[t]}
=============================================================================
