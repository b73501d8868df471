------------------------- MODULE DagSchedulerProofs -------------------------
(***************************************************************************)
(* Theorems about DagScheduler, for every graph, every number of slots and *)
(* attempts and every end of the operations.                               *)
(*                                                                         *)
(* The inductive invariant says for every node what the phase of its       *)
(* coroutine tells about pending, outcome, attempt and started, and for    *)
(* the loop of run what its place tells about the phases.                  *)
(***************************************************************************)
EXTENDS DagScheduler, FiniteSetTheorems, TLAPS

USE DagAssumption

AtRest == {"idle", "done"}
InAttempt == {"running", "ended", "stopping"}
Between == {"check", "delay"}

\* Attempts are counted when the operation is called.
Counted(n) ==
  /\ phase[n] \in {"idle", "waiting"} => started[n] = 0
  /\ phase[n] \in Between => started[n] = attempt[n] - 1 /\ attempt[n] \in 1..MaxAttempts[n]
  /\ phase[n] \in InAttempt => started[n] = attempt[n] /\ attempt[n] \in 1..MaxAttempts[n]
  /\ outcome[n].state # "NONE" =>
       outcome[n].attempts = started[n] /\ started[n] <= MaxAttempts[n]

\* An outcome is given to a node that has none and leaves the node at rest.
Placed(n) ==
  /\ phase[n] \notin AtRest => n \in pending /\ outcome[n].state = "NONE"
  /\ n \in pending /\ phase[n] = "idle" /\ run # "returned" => outcome[n].state = "NONE"
  /\ phase[n] = "done" => outcome[n].state # "NONE" \/ run = "escaped"
  /\ n \notin pending => outcome[n].state # "NONE"

\* A node left the rest only after its dependencies had succeeded for good.
Justified(n) ==
  /\ phase[n] # "idle" => \A d \in Deps[n] : Succeeded(d)
  /\ outcome[n].state = "CANCELLED" =>
       token \/ \E d \in Deps[n] : outcome[d].state \notin {"NONE", "SUCCEEDED"}
  /\ phase[n] = "ended" => signal[n] \in Endings
  /\ phase[n] = "stopping" /\ signal[n] = "stop" => token

\* Between two waves, and when run has ended by itself, no coroutine is left.
LoopInv ==
  /\ run = "deciding" => \A n \in pending : phase[n] = "idle"
  /\ run \in {"returned", "deadlocked"} => \A n \in Nodes : phase[n] \in AtRest
  /\ run = "returned" => \A n \in Nodes : outcome[n].state # "NONE"

NodesInv == \A n \in Nodes : Counted(n) /\ Placed(n) /\ Justified(n)

IInv == TypeOK /\ NodesInv /\ LoopInv

\* What no step does: it neither changes an outcome, nor takes a node back
\* into pending, nor withdraws the cancellation.
Progress ==
  /\ \A n \in Nodes : outcome[n].state # "NONE" => outcome'[n] = outcome[n]
  /\ pending' \subseteq pending
  /\ token => token'

\* A step of one node leaves the others alone.
OnlyNode(n) ==
  /\ UNCHANGED <<token, pending>>
  /\ run' = run \/ run' = "escaped"
  /\ \A m \in Nodes : m # n =>
       /\ phase'[m] = phase[m] /\ attempt'[m] = attempt[m] /\ signal'[m] = signal[m]
       /\ started'[m] = started[m] /\ outcome'[m] = outcome[m]

LEMMA InitIInv == Init => IInv
<1> SUFFICES ASSUME Init PROVE IInv
  OBVIOUS
<1>1. TypeOK
  BY DEF Init, TypeOK, NoOutcome, Holding, Endings
<1>2. NodesInv
  BY DEF Init, NodesInv, Counted, Placed, Justified, NoOutcome, Between, InAttempt, AtRest
<1>3. LoopInv
  BY DEF Init, LoopInv
<1> QED
  BY <1>1, <1>2, <1>3 DEF IInv

-----------------------------------------------------------------------------
(* Type correctness *)

LEMMA FinalStateType ==
  ASSUME NEW e \in Endings \union {"stop"}, e # "cancelled"
  PROVE  /\ FinalState(e) \in {"SUCCEEDED", "FAILED", "TIMED_OUT", "CANCELLED"}
         /\ FinalState(e) = "CANCELLED" => e = "stop"
  BY DEF FinalState, Endings

LEMMA TypeStep == IInv /\ [Next]_vars => TypeOK'
<1> SUFFICES ASSUME IInv, [Next]_vars PROVE TypeOK'
  OBVIOUS
<1>0. TypeOK /\ NodesInv
  BY DEF IInv
<1> USE <1>0 DEF TypeOK
<1>1. CASE UNCHANGED vars
  BY <1>1 DEF vars, nodeVars
<1>2. CASE Cancel
  BY <1>2 DEF Cancel, nodeVars
<1>3. CASE CancelPending
  BY <1>3 DEF CancelPending, Outcome
<1>4. CASE Decide
  <2>1. phase' \in [Nodes -> Holding \union {"idle", "waiting", "done"}]
    BY <1>4 DEF Decide
  <2>2. outcome' \in [Nodes -> [state : {"NONE", "SUCCEEDED", "FAILED", "TIMED_OUT", "CANCELLED"},
                                attempts : Nat]]
    BY <1>4 DEF Decide, Outcome
  <2>3. run' \in {"gathering", "deadlocked", "returned"}
    BY <1>4 DEF Decide
  <2> QED
    BY <1>4, <2>1, <2>2, <2>3 DEF Decide
<1>5. CASE Gathered
  BY <1>5 DEF Gathered, nodeVars
<1>6. ASSUME NEW n \in Nodes, NodeStep(n) PROVE TypeOK'
  <2>1. CASE Acquire(n)
    BY <2>1 DEF Acquire, Holding
  <2>2. CASE CancelBefore(n)
    <3>1. attempt[n] - 1 \in Nat
      BY <2>2 DEF CancelBefore, NodesInv, Counted, Between
    <3> QED
      BY <2>2, <3>1 DEF CancelBefore, Settle, Outcome
  <2>3. CASE StartOperation(n)
    BY <2>3 DEF StartOperation, Holding
  <2>4. CASE HandleEnd(n)
    <3>1. CASE TryAgain(n)
      BY <3>1 DEF TryAgain, Holding
    <3>2. CASE Settle(n, Outcome(FinalState(signal[n]), attempt[n])) /\ signal[n] # "cancelled"
      BY <3>2, FinalStateType DEF Settle, Outcome
    <3> QED
      BY <2>4, <3>1, <3>2 DEF HandleEnd
  <2>5. CASE Escape(n)
    BY <2>5 DEF Escape
  <2>6. CASE DelayOver(n)
    BY <2>6 DEF DelayOver, Holding
  <2> QED
    BY <1>6, <2>1, <2>2, <2>3, <2>4, <2>5, <2>6 DEF NodeStep
<1>7. ASSUME NEW n \in Nodes, OperationStep(n) PROVE TypeOK'
  <2>1. ASSUME NEW e \in Endings, OperationEnds(n, e) PROVE TypeOK'
    BY <2>1 DEF OperationEnds, Holding
  <2>2. ASSUME NEW w \in {"timeout", "stop"}, StopOperation(n, w) PROVE TypeOK'
    BY <2>2 DEF StopOperation, Holding, Endings
  <2> QED
    BY <1>7, <2>1, <2>2 DEF OperationStep
<1> QED
  BY <1>1, <1>2, <1>3, <1>4, <1>5, <1>6, <1>7 DEF Next, Loop, Over
-----------------------------------------------------------------------------
(* Frames *)

LEMMA StepsAreLocal ==
  ASSUME TypeOK, NEW n \in Nodes, NodeStep(n) \/ OperationStep(n)
  PROVE  OnlyNode(n) /\ phase[n] \notin AtRest
<1> USE DEF OnlyNode, TypeOK, AtRest
<1>1. CASE Acquire(n)
  BY <1>1 DEF Acquire
<1>2. CASE CancelBefore(n)
  BY <1>2 DEF CancelBefore, Settle
<1>3. CASE StartOperation(n)
  BY <1>3 DEF StartOperation
<1>4. CASE HandleEnd(n)
  BY <1>4 DEF HandleEnd, TryAgain, Settle
<1>5. CASE Escape(n)
  BY <1>5 DEF Escape
<1>6. CASE DelayOver(n)
  BY <1>6 DEF DelayOver
<1>7. ASSUME NEW e \in Endings, OperationEnds(n, e) PROVE OnlyNode(n) /\ phase[n] \notin AtRest
  BY <1>7 DEF OperationEnds
<1>8. ASSUME NEW w \in {"timeout", "stop"}, StopOperation(n, w)
      PROVE  OnlyNode(n) /\ phase[n] \notin AtRest
  BY <1>8 DEF StopOperation
<1> QED
  BY <1>1, <1>2, <1>3, <1>4, <1>5, <1>6, <1>7, <1>8 DEF NodeStep, OperationStep

LEMMA StepsProgress == IInv /\ [Next]_vars => Progress
<1> SUFFICES ASSUME IInv, [Next]_vars PROVE Progress
  OBVIOUS
<1>0. TypeOK /\ NodesInv /\ LoopInv
  BY DEF IInv
<1> USE DEF Progress
<1>1. CASE UNCHANGED vars
  BY <1>1 DEF vars, nodeVars
<1>2. CASE Cancel
  BY <1>2 DEF Cancel, nodeVars
<1>3. CASE CancelPending
  <2>1. \A n \in pending : outcome[n].state = "NONE"
    BY <1>0, <1>3 DEF CancelPending, NodesInv, Placed, LoopInv, TypeOK
  <2> QED
    BY <1>0, <1>3, <2>1 DEF CancelPending, TypeOK
<1>4. CASE Decide
  <2>1. \A n \in pending : outcome[n].state = "NONE"
    BY <1>0, <1>4 DEF Decide, NodesInv, Placed, LoopInv, TypeOK
  <2>2. Blocked \subseteq pending
    BY DEF Blocked
  <2>3. pending' \subseteq pending /\ token' = token
    BY <1>4 DEF Decide
  <2>4. \A n \in Nodes : n \notin Blocked => outcome'[n] = outcome[n]
    BY <1>4 DEF Decide
  <2> QED
    BY <2>1, <2>2, <2>3, <2>4
<1>5. CASE Gathered
  BY <1>5 DEF Gathered, nodeVars
<1>6. ASSUME NEW n \in Nodes, NodeStep(n) \/ OperationStep(n) PROVE Progress
  <2>1. OnlyNode(n) /\ outcome[n].state = "NONE"
    BY <1>0, <1>6, StepsAreLocal DEF NodesInv, Placed
  <2> QED
    BY <2>1 DEF OnlyNode
<1> QED
  BY <1>1, <1>2, <1>3, <1>4, <1>5, <1>6 DEF Next, Loop, Over

\* What held of a node that a step leaves alone holds of it afterwards.
LEMMA UntouchedNode ==
  ASSUME IInv, Progress, NEW m \in Nodes, run = "returned" => run' = "returned",
         run' = "escaped" \/ run # "escaped",
         phase'[m] = phase[m], attempt'[m] = attempt[m], signal'[m] = signal[m],
         started'[m] = started[m], outcome'[m] = outcome[m],
         (m \in pending) <=> (m \in pending')
  PROVE  Counted(m)' /\ Placed(m)' /\ Justified(m)'
<1>0. Counted(m) /\ Placed(m) /\ Justified(m) /\ TypeOK
  BY DEF IInv, NodesInv
<1>1. Counted(m)'
  BY <1>0 DEF Counted
<1>2. Placed(m)'
  BY <1>0 DEF Placed
<1>3. Justified(m)'
  BY <1>0 DEF Justified, Progress, Succeeded, TypeOK
<1> QED
  BY <1>1, <1>2, <1>3

-----------------------------------------------------------------------------
(* The steps of run *)

LEMMA LoopSteps ==
  ASSUME IInv, Progress, TypeOK', Loop \/ Cancel
  PROVE  NodesInv' /\ LoopInv'
<1>0. TypeOK /\ NodesInv /\ LoopInv
  BY DEF IInv
<1>1. CASE Cancel
  BY <1>0, <1>1 DEF Cancel, nodeVars, NodesInv, LoopInv, Counted, Placed, Justified, Succeeded
<1>2. CASE CancelPending
  <2>1. \A n \in pending : phase[n] = "idle" /\ outcome'[n] = Outcome("CANCELLED", 0)
    BY <1>0, <1>2 DEF CancelPending, LoopInv, TypeOK
  <2>2. /\ UNCHANGED <<token, pending, phase, attempt, signal, started>>
        /\ token /\ run = "deciding" /\ run' = "returned"
    BY <1>2 DEF CancelPending
  <2>3. ASSUME NEW n \in Nodes PROVE Counted(n)' /\ Placed(n)' /\ Justified(n)'
    <3>1. CASE n \in pending
      <4>1. started[n] = 0 /\ phase'[n] = "idle"
        BY <1>0, <2>1, <2>2, <3>1 DEF NodesInv, Counted
      <4> QED
        BY <1>0, <2>1, <2>2, <3>1, <4>1
           DEF Counted, Placed, Justified, Outcome, Between, InAttempt, AtRest
    <3>2. CASE n \notin pending
      BY <2>2, <3>2, <1>2, UntouchedNode DEF CancelPending
    <3> QED
      BY <3>1, <3>2
  <2>4. LoopInv'
    <3>1. \A n \in Nodes : phase[n] \in AtRest
      BY <1>0, <2>1 DEF NodesInv, Placed, AtRest
    <3>2. \A n \in Nodes : outcome'[n].state # "NONE"
      BY <2>1, <2>2, <2>3 DEF Placed, Outcome
    <3> QED
      BY <2>2, <3>1, <3>2 DEF LoopInv
  <2> QED
    BY <2>3, <2>4 DEF NodesInv
<1>3. CASE Decide
  <2> DEFINE wave == Ready \ Blocked
  <2>1. /\ UNCHANGED <<token, attempt, signal, started>>
        /\ run = "deciding" /\ pending' = pending \ Blocked
        /\ \A n \in Nodes : outcome'[n] = IF n \in Blocked THEN Outcome("CANCELLED", 0)
                                           ELSE outcome[n]
        /\ \A n \in Nodes : phase'[n] = IF n \in wave THEN "waiting" ELSE phase[n]
    BY <1>3 DEF Decide
  <2>2. /\ wave # {} => run' = "gathering"
        /\ wave = {} /\ pending' # {} => run' = "deadlocked"
        /\ wave = {} /\ pending' = {} => run' = "returned"
    BY <1>3 DEF Decide
  <2>3. \A n \in pending : phase[n] = "idle" /\ started[n] = 0 /\ outcome[n].state = "NONE"
    BY <1>0, <2>1 DEF LoopInv, NodesInv, Counted, Placed, TypeOK
  <2>4. Blocked \subseteq pending /\ wave \subseteq pending
    BY DEF Blocked, Ready
  <2>5. ASSUME NEW n \in Nodes PROVE Counted(n)' /\ Placed(n)' /\ Justified(n)'
    <3>1. CASE n \in Blocked
      <4>1. PICK d \in Deps[n] : Unsuccessful(d)
        BY <3>1 DEF Blocked
      <4>2. d \in Nodes /\ outcome[d].state \notin {"NONE", "SUCCEEDED"}
        BY <1>0, <4>1 DEF Unsuccessful, NodesInv, Placed
      <4>3. outcome'[d].state \notin {"NONE", "SUCCEEDED"}
        BY <4>2 DEF Progress
      <4>4. phase'[n] = "idle" /\ started'[n] = 0 /\ outcome'[n] = Outcome("CANCELLED", 0)
        BY <2>1, <2>3, <2>4, <3>1
      <4> QED
        BY <1>0, <4>1, <4>3, <4>4, <2>1, <3>1
           DEF Counted, Placed, Justified, Outcome, Between, InAttempt, AtRest, TypeOK
    <3>2. CASE n \in wave
      <4>1. \A d \in Deps[n] : Succeeded(d) /\ d \in Nodes
        BY <3>2 DEF Ready
      <4>2. \A d \in Deps[n] : Succeeded(d)'
        BY <4>1 DEF Succeeded, Progress
      <4>3. /\ phase'[n] = "waiting" /\ started'[n] = 0 /\ outcome'[n].state = "NONE"
            /\ n \in pending'
        BY <2>1, <2>3, <2>4, <3>2
      <4> QED
        BY <4>2, <4>3 DEF Counted, Placed, Justified, Between, InAttempt, AtRest
    <3>3. CASE n \notin Blocked /\ n \notin wave
      BY <2>1, <3>3, UntouchedNode
    <3> QED
      BY <3>1, <3>2, <3>3
  <2>6. LoopInv'
    <3>1. \A n \in Nodes : phase[n] \in AtRest
      BY <1>0, <2>3 DEF NodesInv, Placed, AtRest
    <3>2. wave = {} => \A n \in Nodes : phase'[n] \in AtRest
      BY <2>1, <3>1
    <3>3. pending' = {} => \A n \in Nodes : outcome'[n].state # "NONE"
      BY <2>5 DEF Placed
    <3> QED
      BY <2>2, <3>2, <3>3 DEF LoopInv
  <2> QED
    BY <2>5, <2>6 DEF NodesInv
<1>4. CASE Gathered
  <2>1. /\ UNCHANGED <<token, outcome, phase, attempt, signal, started>>
        /\ run = "gathering" /\ pending' = pending \ Wave
        /\ run' = IF pending' = {} THEN "returned" ELSE "deciding"
        /\ \A n \in Wave : phase[n] = "done"
    BY <1>4 DEF Gathered, nodeVars
  <2>2. \A n \in pending' : phase[n] = "idle"
    BY <1>0, <2>1 DEF Wave
  <2>3. \A n \in Nodes : phase[n] \in AtRest
    BY <1>0, <2>1, <2>2 DEF NodesInv, Placed, AtRest, Wave
  <2>4. \A n \in Wave : outcome[n].state # "NONE"
    BY <1>0, <2>1 DEF NodesInv, Placed, Wave, TypeOK
  <2>5. ASSUME NEW n \in Nodes PROVE Counted(n)' /\ Placed(n)' /\ Justified(n)'
    <3>1. Counted(n) /\ Placed(n) /\ Justified(n)
      BY <1>0 DEF NodesInv
    <3>2. Counted(n)'
      BY <2>1, <3>1 DEF Counted
    <3>3. Placed(n)'
      BY <2>1, <2>3, <2>4, <3>1 DEF Placed
    <3>4. Justified(n)'
      BY <2>1, <3>1 DEF Justified, Succeeded
    <3> QED
      BY <3>2, <3>3, <3>4
  <2>6. LoopInv'
    BY <2>1, <2>2, <2>3, <2>5 DEF LoopInv, Placed
  <2> QED
    BY <2>5, <2>6 DEF NodesInv
<1> QED
  BY <1>1, <1>2, <1>3, <1>4 DEF Loop

-----------------------------------------------------------------------------
(* The steps of a node *)

LEMMA OneMore ==
  ASSUME NEW k \in Nat, NEW m \in Nat, k \in 1..m, k # m
  PROVE  k + 1 \in 1..m /\ k = (k + 1) - 1
  OBVIOUS

LEMMA OwnStep ==
  ASSUME IInv, Progress, TypeOK', NEW n \in Nodes, NodeStep(n) \/ OperationStep(n)
  PROVE  Counted(n)' /\ Placed(n)' /\ Justified(n)'
<1>0. TypeOK /\ Counted(n) /\ Placed(n) /\ Justified(n)
  BY DEF IInv, NodesInv
<1>1. OnlyNode(n) /\ phase[n] \notin AtRest
  BY <1>0, StepsAreLocal
<1>2. n \in pending /\ outcome[n].state = "NONE"
  BY <1>0, <1>1 DEF Placed
<1>3. /\ token' = token /\ n \in pending'
      /\ \A d \in Deps[n] : Succeeded(d) /\ Succeeded(d)'
  BY <1>0, <1>1, <1>2 DEF OnlyNode, Justified, Succeeded, Progress, AtRest
<1> DEFINE Done == Counted(n)' /\ Placed(n)' /\ Justified(n)'
<1> USE <1>0, <1>2, <1>3 DEF TypeOK, Counted, Placed, Justified, AtRest, InAttempt, Between
<1>4. CASE Acquire(n)
  BY <1>4 DEF Acquire
<1>5. ASSUME NEW o, Settle(n, o), o.state \in {"SUCCEEDED", "FAILED", "TIMED_OUT", "CANCELLED"},
             o.attempts = started[n], started[n] <= MaxAttempts[n],
             o.state = "CANCELLED" => token
      PROVE  Done
  <2>1. phase'[n] = "done" /\ outcome'[n] = o /\ started'[n] = started[n]
    BY <1>5 DEF Settle
  <2> QED
    BY <2>1, <1>5
<1>6. CASE CancelBefore(n)
  <2>1. token /\ phase[n] = "check" /\ Settle(n, Outcome("CANCELLED", attempt[n] - 1))
    BY <1>6 DEF CancelBefore
  <2>2. attempt[n] - 1 = started[n] /\ started[n] <= MaxAttempts[n]
    BY <2>1
  <2> QED
    BY <2>1, <2>2, <1>5 DEF Outcome
<1>7. CASE StartOperation(n)
  <2>1. /\ phase[n] = "check" /\ phase'[n] = "running" /\ started'[n] = started[n] + 1
        /\ outcome' = outcome /\ attempt' = attempt
    BY <1>7 DEF StartOperation
  <2> QED
    BY <2>1
<1>8. CASE HandleEnd(n)
  <2>1. phase[n] \in {"ended", "stopping"} /\ signal[n] # "cancelled"
    BY <1>8 DEF HandleEnd
  <2>2. started[n] = attempt[n] /\ attempt[n] \in 1..MaxAttempts[n]
    BY <2>1
  <2>3. CASE TryAgain(n)
    <3>1. /\ attempt'[n] = attempt[n] + 1 /\ phase'[n] \in {"delay", "check"}
          /\ started' = started /\ outcome' = outcome /\ attempt[n] # MaxAttempts[n]
      BY <2>3 DEF TryAgain, LastAttempt
    <3>2. attempt[n] \in Nat /\ MaxAttempts[n] \in Nat
      OBVIOUS
    <3>3. started'[n] = attempt'[n] - 1 /\ attempt'[n] \in 1..MaxAttempts[n]
      <4>1. attempt[n] + 1 \in 1..MaxAttempts[n] /\ attempt[n] = (attempt[n] + 1) - 1
        <5>1. attempt[n] \in 1..MaxAttempts[n] /\ attempt[n] # MaxAttempts[n]
          BY <2>2, <3>1
        <5> QED
          BY <5>1, <3>2, OneMore, Zenon
      <4>2. started'[n] = attempt[n] /\ attempt'[n] = attempt[n] + 1
        BY <2>2, <3>1
      <4> QED
        BY <4>1, <4>2, Zenon
    <3>4. Counted(n)'
      BY <3>1, <3>3
    <3>5. Placed(n)' /\ Justified(n)'
      BY <3>1
    <3> QED
      BY <3>4, <3>5
  <2>4. CASE Settle(n, Outcome(FinalState(signal[n]), attempt[n]))
    <3>1. /\ FinalState(signal[n]) \in {"SUCCEEDED", "FAILED", "TIMED_OUT", "CANCELLED"}
          /\ FinalState(signal[n]) = "CANCELLED" => signal[n] = "stop"
      BY <2>1, FinalStateType
    <3>2. signal[n] = "stop" => token
      BY <2>1 DEF Endings
    <3> QED
      BY <2>2, <2>4, <3>1, <3>2, <1>5 DEF Outcome
  <2> QED
    BY <1>8, <2>3, <2>4 DEF HandleEnd
<1>9. CASE Escape(n)
  <2>1. phase'[n] = "done" /\ run' = "escaped" /\ started' = started /\ outcome' = outcome
    BY <1>9 DEF Escape
  <2> QED
    BY <2>1
<1>10. CASE DelayOver(n)
  BY <1>10 DEF DelayOver
<1>11. ASSUME NEW e \in Endings, OperationEnds(n, e) PROVE Done
  BY <1>11 DEF OperationEnds
<1>12. ASSUME NEW w \in {"timeout", "stop"}, StopOperation(n, w) PROVE Done
  BY <1>12 DEF StopOperation
<1> QED
  BY <1>4, <1>6, <1>7, <1>8, <1>9, <1>10, <1>11, <1>12 DEF NodeStep, OperationStep

LEMMA NodeSteps ==
  ASSUME IInv, Progress, TypeOK', NEW n \in Nodes, NodeStep(n) \/ OperationStep(n)
  PROVE  NodesInv' /\ LoopInv'
<1>1. OnlyNode(n) /\ phase[n] \notin AtRest
  BY StepsAreLocal DEF IInv
<1>2. n \in pending /\ run \notin {"deciding", "returned", "deadlocked"}
  BY <1>1 DEF IInv, NodesInv, Placed, LoopInv, AtRest
<1>3. ASSUME NEW m \in Nodes, m # n PROVE Counted(m)' /\ Placed(m)' /\ Justified(m)'
  <2>1. run = "escaped" => run' = "escaped"
    BY <1>1 DEF OnlyNode
  <2> QED
    BY <1>1, <1>2, <1>3, <2>1, UntouchedNode DEF OnlyNode
<1>4. LoopInv'
  BY <1>1, <1>2 DEF OnlyNode, LoopInv
<1> QED
  BY <1>3, <1>4, OwnStep DEF NodesInv

-----------------------------------------------------------------------------
LEMMA NextIInv == IInv /\ [Next]_vars => IInv'
<1> SUFFICES ASSUME IInv, [Next]_vars PROVE IInv'
  OBVIOUS
<1>1. TypeOK' /\ Progress
  BY TypeStep, StepsProgress
<1>2. CASE UNCHANGED vars
  BY <1>2 DEF vars, nodeVars, IInv, TypeOK, NodesInv, LoopInv, Counted, Placed, Justified, Succeeded
<1>3. CASE Loop \/ Cancel
  BY <1>1, <1>3, LoopSteps DEF IInv
<1>4. ASSUME NEW n \in Nodes, NodeStep(n) \/ OperationStep(n) PROVE IInv'
  BY <1>1, <1>4, NodeSteps DEF IInv
<1> QED
  BY <1>2, <1>3, <1>4 DEF Next, Over

\* The inductive invariant holds in every run of the scheduler.
THEOREM Invariance == Spec => []IInv
BY InitIInv, NextIInv, PTL DEF Spec

\* The operation of a node is called only after all its dependencies succeeded.
THEOREM StartsAfterDependenciesHolds == Spec => []StartsAfterDependencies
<1>1. IInv => StartsAfterDependencies
  BY DEF IInv, NodesInv, TypeOK, Counted, Justified, Succeeded, StartsAfterDependencies
<1> QED
  BY <1>1, Invariance, PTL

\* TaskOutcome.attempts is the number of calls of the operation.
THEOREM AttemptsAccountedHolds == Spec => []AttemptsAccounted
<1>1. IInv => AttemptsAccounted
  BY DEF IInv, NodesInv, Counted, AttemptsAccounted
<1> QED
  BY <1>1, Invariance, PTL

\* A run that returns has decided every node, and like one that raises the
\* deadlock error it leaves no coroutine behind.
THEOREM ReturnsCompleteHolds == Spec => []ReturnsComplete
<1>1. IInv => ReturnsComplete
  BY DEF IInv, LoopInv, ReturnsComplete, Active, Holding, AtRest
<1> QED
  BY <1>1, Invariance, PTL

\* A node is cancelled only with the run or after an unsuccessful dependency.
THEOREM CancelledForReasonHolds == Spec => []CancelledForReason
<1>1. IInv => CancelledForReason
  BY DEF IInv, NodesInv, Justified, CancelledForReason
<1> QED
  BY <1>1, Invariance, PTL

\* An outcome is never revised.
THEOREM OutcomeIsFinalHolds == Spec => OutcomeIsFinal
<1>1. IInv /\ [Next]_vars =>
        [\A n \in Nodes : outcome[n].state # "NONE" => outcome'[n] = outcome[n]]_vars
  BY StepsProgress DEF Progress
<1> QED
  BY <1>1, Invariance, PTL DEF Spec, OutcomeIsFinal

\* The semaphore: never more than max_concurrency nodes are in an attempt or
\* between two.
THEOREM SlotsBoundedHolds == Spec => []SlotsBounded
<1>1. Init => SlotsBounded
  <2> SUFFICES ASSUME Init PROVE SlotsBounded
    OBVIOUS
  <2>1. Holders = {}
    BY DEF Init, Holders, Holding
  <2> QED
    BY <2>1, FS_EmptySet DEF SlotsBounded
<1>2. IInv /\ SlotsBounded /\ [Next]_vars => SlotsBounded'
  <2> SUFFICES ASSUME IInv, SlotsBounded, [Next]_vars PROVE SlotsBounded'
    OBVIOUS
  <2>0. TypeOK /\ IsFiniteSet(Holders) /\ Cardinality(Holders) \in Nat
    <3>1. Holders \subseteq Nodes
      BY DEF Holders
    <3> QED
      BY <3>1, FS_Subset, FS_CardinalityType DEF IInv
  <2>1. ASSUME Holders' \subseteq Holders PROVE SlotsBounded'
    <3>1. Cardinality(Holders') <= Cardinality(Holders)
      BY <2>0, <2>1, FS_Subset
    <3>2. Cardinality(Holders') \in Nat
      BY <2>0, <2>1, FS_Subset, FS_CardinalityType
    <3> QED
      BY <2>0, <3>1, <3>2 DEF SlotsBounded
  <2>2. CASE UNCHANGED vars
    BY <2>1, <2>2 DEF vars, nodeVars, Holders
  <2>3. CASE Cancel \/ Loop
    <3>1. \A m \in Nodes : phase'[m] \in Holding => phase[m] \in Holding
      BY <2>0, <2>3 DEF Cancel, Loop, CancelPending, Decide, Gathered, nodeVars, TypeOK, Holding
    <3> QED
      BY <2>1, <3>1 DEF Holders
  <2>4. ASSUME NEW n \in Nodes, Acquire(n) PROVE SlotsBounded'
    <3>1. Holders' = Holders \union {n} /\ n \notin Holders
      BY <2>0, <2>4 DEF Acquire, Holders, Holding, TypeOK
    <3>2. Cardinality(Holders') = Cardinality(Holders) + 1
      BY <2>0, <3>1, FS_AddElement
    <3> QED
      BY <2>0, <2>4, <3>2 DEF Acquire, SlotFree, SlotsBounded
  <2>5. ASSUME NEW n \in Nodes, NodeStep(n) \/ OperationStep(n), ~ Acquire(n)
        PROVE  SlotsBounded'
    <3>1. OnlyNode(n)
      BY <2>0, <2>5, StepsAreLocal
    <3>2. phase'[n] \in Holding => phase[n] \in Holding
      BY <2>0, <2>5 DEF NodeStep, OperationStep, CancelBefore, Settle, StartOperation, HandleEnd,
         TryAgain, Escape, DelayOver, OperationEnds, StopOperation, Holding, TypeOK
    <3> QED
      BY <2>1, <3>1, <3>2 DEF OnlyNode, Holders
  <2> QED
    BY <2>2, <2>3, <2>4, <2>5 DEF Next, Over
<1> QED
  BY <1>1, <1>2, Invariance, PTL DEF Spec
=============================================================================
