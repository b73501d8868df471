---------------------------- MODULE DagScheduler ----------------------------
(***************************************************************************)
(* One call of DagScheduler.run (packages/harness/scheduler.py): the loop  *)
(* that settles blocked nodes and gathers a wave of ready ones, the        *)
(* coroutine _run_node of every node of the wave with its attempts, and    *)
(* the race of an operation with its timeout and the cancellation token.   *)
(*                                                                         *)
(* The coroutines run on one event loop: a step here is what happens       *)
(* between two awaits, or what the outside does meanwhile (an operation    *)
(* ends, a timeout fires, somebody cancels).                               *)
(***************************************************************************)
EXTENDS Integers, FiniteSets

CONSTANTS
  Nodes,           \* task ids of the DAG
  Deps,            \* TaskNode.dependency_ids
  MaxAttempts,     \* TaskNode.max_attempts
  MaxConcurrency,  \* DagScheduler.max_concurrency
  RetryDelay       \* whether retry_delay_seconds > 0

\* TaskDAG refuses a graph with a cycle: removing the nodes without remaining
\* dependencies gets stuck exactly if some nodes all depend on one another.
Acyclic ==
  \A S \in SUBSET Nodes : S # {} => \E n \in S : Deps[n] \intersect S = {}

ASSUME DagAssumption ==
  /\ Nodes # {} /\ IsFiniteSet(Nodes)
  /\ Deps \in [Nodes -> SUBSET Nodes]
  /\ Acyclic
  /\ MaxAttempts \in [Nodes -> Nat \ {0}]
  /\ MaxConcurrency \in Nat \ {0}
  /\ RetryDelay \in BOOLEAN

VARIABLES
  token,     \* CancellationToken.cancelled
  run,       \* where DagScheduler.run is
  pending,   \* run's set of nodes without an outcome
  outcome,   \* what run or _run_node decided for a node
  phase,     \* where the coroutine of a node is
  attempt,   \* the loop variable of _run_node
  signal,    \* how the operation ended, or why it is being stopped
  started    \* how often the operation of a node was called

nodeVars == <<outcome, phase, attempt, signal, started>>
vars == <<token, run, pending, nodeVars>>

\* How an operation can end.  "cancelled": it lets a CancelledError of its own
\* escape; "error": any other exception.
Endings == {"ok", "retryable", "permanent", "timeout", "cancelled", "error"}

NoOutcome == [state |-> "NONE", attempts |-> 0]
Outcome(s, k) == [state |-> s, attempts |-> k]

Succeeded(n) == n \notin pending /\ outcome[n].state = "SUCCEEDED"
Unsuccessful(n) == n \notin pending /\ outcome[n].state # "SUCCEEDED"

\* The phases between acquiring the semaphore and leaving _run_node; a node
\* keeps its slot while it waits for its next attempt.
Holding == {"check", "running", "ended", "stopping", "delay"}
Holders == {n \in Nodes : phase[n] \in Holding}
Active == {n \in Nodes : phase[n] \in Holding \union {"waiting"}}

Init ==
  /\ token = FALSE
  /\ run = "deciding"
  /\ pending = Nodes
  /\ outcome = [n \in Nodes |-> NoOutcome]
  /\ phase = [n \in Nodes |-> "idle"]
  /\ attempt = [n \in Nodes |-> 0]
  /\ signal = [n \in Nodes |-> "ok"]
  /\ started = [n \in Nodes |-> 0]

Cancel ==
  /\ ~ token
  /\ token' = TRUE
  /\ UNCHANGED <<run, pending, nodeVars>>

-----------------------------------------------------------------------------
(* The loop of run *)

\* Mutant of CancelPending: the loop ends without recording the rest.
BreakOnCancel ==
  /\ run = "deciding" /\ pending # {} /\ token
  /\ run' = "returned"
  /\ UNCHANGED <<token, pending, nodeVars>>

CancelPending ==
  /\ run = "deciding" /\ pending # {} /\ token
  /\ outcome' = [n \in Nodes |-> IF n \in pending THEN Outcome("CANCELLED", 0)
                                 ELSE outcome[n]]
  /\ run' = "returned"
  /\ UNCHANGED <<token, pending, phase, attempt, signal, started>>

Blocked == {n \in pending : \E d \in Deps[n] : Unsuccessful(d)}

\* Mutant of Ready: one successful dependency is enough.
AnyDepSucceeded == {n \in pending : Deps[n] = {} \/ \E d \in Deps[n] : Succeeded(d)}

Ready == {n \in pending : \A d \in Deps[n] : Succeeded(d)}

\* Mutant of Decide: cancelled nodes stay in pending, and with nothing ready the
\* loop goes round again.
DecideAgain ==
  /\ run = "deciding" /\ pending # {} /\ ~ token
  /\ outcome' = [n \in Nodes |-> IF n \in Blocked THEN Outcome("CANCELLED", 0)
                                 ELSE outcome[n]]
  /\ LET wave == Ready \ Blocked IN
       /\ phase' = [n \in Nodes |-> IF n \in wave THEN "waiting" ELSE phase[n]]
       /\ run' = IF wave # {} THEN "gathering" ELSE "deciding"
  /\ UNCHANGED <<token, pending, attempt, signal, started>>

\* The direct dependents of failed nodes are cancelled, the ready nodes become
\* the next wave; run raises if there are pending nodes of neither kind.
Decide ==
  /\ run = "deciding" /\ pending # {} /\ ~ token
  /\ outcome' = [n \in Nodes |-> IF n \in Blocked THEN Outcome("CANCELLED", 0)
                                 ELSE outcome[n]]
  /\ pending' = pending \ Blocked
  /\ LET wave == Ready \ Blocked IN
       /\ phase' = [n \in Nodes |-> IF n \in wave THEN "waiting" ELSE phase[n]]
       /\ run' = CASE wave # {} -> "gathering"
                   [] wave = {} /\ pending \ Blocked # {} -> "deadlocked"
                   [] OTHER -> "returned"
  /\ UNCHANGED <<token, attempt, signal, started>>

Wave == {n \in pending : phase[n] # "idle"}

\* gather returns when every coroutine of the wave has.
Gathered ==
  /\ run = "gathering"
  /\ \A n \in Wave : phase[n] = "done"
  /\ pending' = pending \ Wave
  /\ run' = IF pending' = {} THEN "returned" ELSE "deciding"
  /\ UNCHANGED <<token, nodeVars>>

-----------------------------------------------------------------------------
(* _run_node *)

SlotFree == Cardinality(Holders) < MaxConcurrency

Acquire(n) ==
  /\ phase[n] = "waiting"
  /\ SlotFree
  /\ phase' = [phase EXCEPT ![n] = "check"]
  /\ attempt' = [attempt EXCEPT ![n] = 1]
  /\ UNCHANGED <<token, run, pending, outcome, signal, started>>

Settle(n, o) ==
  /\ outcome' = [outcome EXCEPT ![n] = o]
  /\ phase' = [phase EXCEPT ![n] = "done"]
  /\ UNCHANGED <<token, run, pending, attempt, signal, started>>

CancelBefore(n) ==
  phase[n] = "check" /\ token /\ Settle(n, Outcome("CANCELLED", attempt[n] - 1))

StartOperation(n) ==
  /\ phase[n] = "check" /\ ~ token
  /\ phase' = [phase EXCEPT ![n] = "running"]
  /\ started' = [started EXCEPT ![n] = @ + 1]
  /\ UNCHANGED <<token, run, pending, outcome, attempt, signal>>

\* The operation ends; its result wins over a timeout or cancellation that the
\* coroutine has not noticed yet.
OperationEnds(n, e) ==
  /\ phase[n] = "running"
  /\ phase' = [phase EXCEPT ![n] = "ended"]
  /\ signal' = [signal EXCEPT ![n] = e]
  /\ UNCHANGED <<token, run, pending, outcome, attempt, started>>

\* asyncio.wait returns without the operation: it is cancelled and awaited.
StopOperation(n, why) ==
  /\ phase[n] = "running"
  /\ why = "stop" => token
  /\ phase' = [phase EXCEPT ![n] = "stopping"]
  /\ signal' = [signal EXCEPT ![n] = why]
  /\ UNCHANGED <<token, run, pending, outcome, attempt, started>>

LastAttempt(n) == attempt[n] = MaxAttempts[n]

TryAgain(n) ==
  /\ ~ LastAttempt(n)
  /\ attempt' = [attempt EXCEPT ![n] = @ + 1]
  /\ phase' = [phase EXCEPT ![n] = IF RetryDelay THEN "delay" ELSE "check"]
  /\ UNCHANGED <<token, run, pending, outcome, signal, started>>

\* What _run_node makes of the end of an operation.
FinalState(e) ==
  CASE e = "ok" -> "SUCCEEDED"
    [] e \in {"retryable", "permanent", "error"} -> "FAILED"
    [] e = "timeout" -> "TIMED_OUT"
    [] e = "stop" -> "CANCELLED"

HandleEnd(n) ==
  /\ phase[n] \in {"ended", "stopping"}
  /\ signal[n] # "cancelled"
  /\ \/ signal[n] \in {"timeout", "retryable"} /\ TryAgain(n)
     \/ /\ signal[n] \in {"timeout", "retryable"} => LastAttempt(n)
        /\ Settle(n, Outcome(FinalState(signal[n]), attempt[n]))

\* The CancelledError passes through _run_node and gather: run ends with it
\* while the other coroutines of the wave go on.
Escape(n) ==
  /\ phase[n] = "ended" /\ signal[n] = "cancelled"
  /\ phase' = [phase EXCEPT ![n] = "done"]
  /\ run' = "escaped"
  /\ UNCHANGED <<token, pending, outcome, attempt, signal, started>>

DelayOver(n) ==
  /\ phase[n] = "delay"
  /\ phase' = [phase EXCEPT ![n] = "check"]
  /\ UNCHANGED <<token, run, pending, outcome, attempt, signal, started>>

-----------------------------------------------------------------------------
Ended == run \in {"returned", "deadlocked", "escaped"}

\* run has ended and nothing of it is left.
Over == Ended /\ Active = {} /\ UNCHANGED vars

Loop == CancelPending \/ Decide \/ Gathered

\* What the coroutine of n does by itself, and what it waits for.
NodeStep(n) ==
  Acquire(n) \/ CancelBefore(n) \/ StartOperation(n) \/ HandleEnd(n) \/ Escape(n)
  \/ DelayOver(n)
OperationStep(n) ==
  (\E e \in Endings : OperationEnds(n, e)) \/ (\E w \in {"timeout", "stop"} : StopOperation(n, w))

Next ==
  \/ Cancel
  \/ Loop
  \/ \E n \in Nodes : NodeStep(n) \/ OperationStep(n)
  \/ Over

Spec == Init /\ [][Next]_vars

-----------------------------------------------------------------------------
(* Safety *)

\* Every variable stays in its type.
TypeOK ==
  /\ token \in BOOLEAN
  /\ run \in {"deciding", "gathering", "returned", "deadlocked", "escaped"}
  /\ pending \subseteq Nodes
  /\ outcome \in [Nodes -> [state : {"NONE", "SUCCEEDED", "FAILED", "TIMED_OUT", "CANCELLED"},
                            attempts : Nat]]
  /\ phase \in [Nodes -> Holding \union {"idle", "waiting", "done"}]
  /\ attempt \in [Nodes -> Nat]
  /\ signal \in [Nodes -> Endings \union {"stop"}]
  /\ started \in [Nodes -> Nat]

\* No more nodes are in an attempt, or between two, than max_concurrency, over
\* retries, timeouts and cancellations of the wave.
SlotsBounded == Cardinality(Holders) <= MaxConcurrency

\* The operation of a node is called only after all its dependencies succeeded.
StartsAfterDependencies ==
  \A n \in Nodes : started[n] > 0 => \A d \in Deps[n] : outcome[d].state = "SUCCEEDED"

\* TaskOutcome.attempts is the number of calls of the operation whichever of
\* the return statements of run and _run_node produced it, and within the limit.
AttemptsAccounted ==
  \A n \in Nodes : outcome[n].state # "NONE" =>
    outcome[n].attempts = started[n] /\ started[n] <= MaxAttempts[n]

\* A run that returns has an outcome for every node, and nothing of it is left
\* behind on the event loop; also nothing is left behind if it raises the
\* deadlock error.
ReturnsComplete ==
  /\ run = "returned" => \A n \in Nodes : outcome[n].state # "NONE"
  /\ run \in {"returned", "deadlocked"} => Active = {}

\* A node is cancelled only if the run was, or a dependency did not succeed.
CancelledForReason ==
  \A n \in Nodes : outcome[n].state = "CANCELLED" =>
    token \/ \E d \in Deps[n] : outcome[d].state \notin {"NONE", "SUCCEEDED"}

\* Once decided, the outcome of a node stays as it is.
OutcomeIsFinal ==
  [][\A n \in Nodes : outcome[n].state # "NONE" => outcome'[n] = outcome[n]]_vars

-----------------------------------------------------------------------------
(* Liveness *)

\* The event loop runs what is ready; operations end, or honour the
\* cancellation when their timeout fires.
Fairness ==
  WF_vars(Loop) /\ \A n \in Nodes : WF_vars(NodeStep(n)) /\ WF_vars(OperationStep(n))

FairSpec == Spec /\ Fairness

\* Every run ends, cancelled or not, and leaves nothing running.
RunEnds == <>[](Ended /\ Active = {})

-----------------------------------------------------------------------------
(* What the documents say and the code does not do *)

\* run executes a DAG "to terminal outcomes without scheduling blocked
\* descendants": it does not raise on a graph that passed the validation.
NeverDeadlocked == run # "deadlocked"
=============================================================================
