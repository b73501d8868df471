-------------------------- MODULE TaskQueueProofs --------------------------
(***************************************************************************)
(* Theorems about TaskQueue for every number of runs, tasks and workers,   *)
(* every dependency relation and every lease length.  The inductive        *)
(* invariant is Inv: beside the safety properties of TaskQueue it says     *)
(* what ties the memory of a worker to the row it leased (JobInv).         *)
(*                                                                         *)
(* The last part is about TaskEvents: the composition runs the queue as it *)
(* runs alone, so that the theorems about the queue hold of it, commits    *)
(* the row of a task and its completion event together, and tells nobody   *)
(* of a completion before everything it rests on is done.                  *)
(***************************************************************************)
EXTENDS TaskEvents, TLAPS

\* What a worker holds lags behind its row but never runs ahead of it: while
\* its lease lasts it counts the time the row counts, and every step before
\* the next one it will run has been checkpointed.
JobInv ==
  \A w \in Workers : Busy(w) =>
    /\ job[w].attempt <= attempt[job[w].task]
    /\ job[w].left >= 0 => job[w].left = leaseLeft[job[w].task]
    /\ \A s \in Steps : s < job[w].next => checkpoints[job[w].task][s] # 0

\* complete_task, heartbeat_task and the event variant test the name of the
\* owner and not its attempt.  That is enough: the worker a row names never
\* holds the row in an earlier attempt.
OwnerIsCurrentAttempt ==
  \A w \in Workers : Busy(w) /\ leaseOwner[job[w].task] = w =>
    job[w].attempt = attempt[job[w].task]

\* A task that was not added yet was not tried either.
AbsentIsFresh == \A t \in Tasks : state[t] = "ABSENT" => attempt[t] = 0

LeaseInv ==
  /\ LeasedIffOwned
  /\ JobInv
  /\ LeaseHolderUndisturbed
  /\ OwnerIsCurrentAttempt
  /\ OneWorkerPerAttempt

Inv ==
  /\ TypeOK
  /\ AttemptBudget
  /\ AbsentIsFresh
  /\ DependenciesFirst
  /\ LeaseInv
  /\ CheckpointsContiguous

-----------------------------------------------------------------------------
(* Type correctness *)

\* A worker that holds a job holds a well-formed one.
LEMMA BusyJob ==
  ASSUME TypeOK, NEW w \in Workers, Busy(w)
  PROVE  /\ job[w] \in Jobs
         /\ job[w].task \in Tasks
         /\ job[w].attempt \in Nat \ {0}
         /\ job[w].next \in -1..(MaxStep + 1)
         /\ job[w].left \in -1..LeaseSeconds
  BY DEF TypeOK, Busy, Jobs

\* Moving a job on, or renewing its lease, keeps it well formed.
LEMMA JobUpdate ==
  ASSUME NEW j \in Jobs
  PROVE  /\ \A n \in -1..(MaxStep + 1) : [j EXCEPT !.next = n] \in Jobs
         /\ \A n \in -1..LeaseSeconds : [j EXCEPT !.left = n] \in Jobs
  BY DEF Jobs

\* The initial state has the types of TypeOK.
LEMMA InitTypeOK == Init => TypeOK
  BY QueueAssumption DEF QueueAssumption, Init, TypeOK, TaskStates, Steps

\* Every step of the queue keeps the types of TypeOK.
LEMMA NextTypeOK == TypeOK /\ [Next]_vars => TypeOK'
<1> SUFFICES ASSUME TypeOK, [Next]_vars PROVE TypeOK'
  OBVIOUS
<1> USE QueueAssumption DEF QueueAssumption
<1>1. ASSUME NEW r \in Runs, CreateRun(r) PROVE TypeOK'
  BY <1>1 DEF TypeOK, CreateRun, clock
<1>2. ASSUME NEW batch \in SUBSET Tasks, AddTasks(batch) PROVE TypeOK'
  BY <1>2 DEF TypeOK, AddTasks, clock, TaskStates
<1>3. ASSUME NEW w \in Workers, Lease(w) PROVE TypeOK'
  <2> PICK scope \in Scopes, t \in Tasks : LeaseNextTask(w, t, scope)
    BY <1>3 DEF Lease
  <2>1. job' \in [Workers -> Jobs \union {NoJob}]
    BY DEF TypeOK, LeaseNextTask, NextAttempt, Jobs
  <2> QED BY <2>1 DEF TypeOK, LeaseNextTask, NextAttempt, clock, TaskStates
<1>4. ASSUME NEW w \in Workers, ResumeCheckpoint(w) PROVE TypeOK'
  <2>1. job[w] \in Jobs
    BY <1>4, BusyJob DEF ResumeCheckpoint
  <2>2. job' \in [Workers -> Jobs \union {NoJob}]
    <3> PICK n \in 0..(MaxStep + 1) : job' = [job EXCEPT ![w].next = n]
      BY <1>4 DEF ResumeCheckpoint
    <3> QED BY <2>1, JobUpdate DEF TypeOK
  <2> QED BY <1>4, <2>2 DEF TypeOK, ResumeCheckpoint, rows, clock
<1>5. ASSUME NEW w \in Workers, SaveCheckpoint(w) PROVE TypeOK'
  <2>1. job[w] \in Jobs /\ job[w].task \in Tasks
    BY <1>5, BusyJob DEF SaveCheckpoint
  <2>2. job' \in [Workers -> Jobs \union {NoJob}]
    <3>1. job[w].next + 1 \in -1..(MaxStep + 1)
      BY <1>5 DEF SaveCheckpoint, Steps
    <3> QED BY <1>5, <2>1, <3>1, JobUpdate DEF TypeOK, SaveCheckpoint
  <2>3. checkpoints' \in [Tasks -> [Steps -> Nat]]
    BY <1>5, <2>1 DEF TypeOK, SaveCheckpoint, StoredCheckpoint, Jobs
  <2> QED BY <1>5, <2>2, <2>3 DEF TypeOK, SaveCheckpoint, rows, clock
<1>6. ASSUME NEW w \in Workers, Pulse(w) PROVE TypeOK'
  <2>1. job[w] \in Jobs
    BY <1>6, BusyJob DEF Pulse
  <2>2. job' \in [Workers -> Jobs \union {NoJob}]
    <3>1. LeaseSeconds \in -1..LeaseSeconds
      OBVIOUS
    <3> QED BY <1>6, <2>1, <3>1, JobUpdate DEF TypeOK, Pulse
  <2>3. leaseLeft' \in [Tasks -> -1..LeaseSeconds]
    <3>1. LeaseSeconds \in -1..LeaseSeconds
      OBVIOUS
    <3> QED BY <1>6, <3>1, Zenon DEF TypeOK, Pulse
  <2> QED BY <1>6, <2>2, <2>3 DEF TypeOK, Pulse, clock
<1>7. ASSUME NEW w \in Workers, PulseRefused(w) \/ CompleteRefused(w) \/ Abandon(w)
      PROVE  TypeOK'
  BY <1>7 DEF TypeOK, PulseRefused, CompleteRefused, Abandon, rows, clock
<1>8. ASSUME NEW w \in Workers, CompleteTask(w) PROVE TypeOK'
  <2>1. job' \in [Workers -> Jobs \union {NoJob}]
    BY <1>8 DEF TypeOK, CompleteTask
  <2>2. state' \in [Tasks -> TaskStates]
    BY <1>8 DEF TypeOK, CompleteTask, TaskStates
  <2>3. leaseLeft' \in [Tasks -> -1..LeaseSeconds]
    <3>1. 0 \in -1..LeaseSeconds
      OBVIOUS
    <3> QED BY <1>8, <3>1, Zenon DEF TypeOK, CompleteTask
  <2> QED BY <1>8, <2>1, <2>2, <2>3 DEF TypeOK, CompleteTask, clock
<1>9. ASSUME RecoverExpiredLeases PROVE TypeOK'
  BY <1>9 DEF TypeOK, RecoverExpiredLeases, RecoveredState, clock, TaskStates
<1>10. ASSUME Tick PROVE TypeOK'
  <2>1. job' \in [Workers -> Jobs \union {NoJob}]
    <3> SUFFICES ASSUME NEW w \in Workers, Busy(w)
                 PROVE  [job[w] EXCEPT !.left = Left(@)] \in Jobs
      BY <1>10 DEF Tick
    <3>1. job[w] \in Jobs /\ job[w].left \in -1..LeaseSeconds
      BY BusyJob
    <3>2. Left(job[w].left) \in -1..LeaseSeconds
      BY <3>1 DEF Left
    <3> QED BY <3>1, <3>2, JobUpdate
  <2>2. leaseLeft' \in [Tasks -> -1..LeaseSeconds]
    BY <1>10 DEF Tick, TypeOK, Left
  <2>3. wait' \in [Tasks -> Nat] /\ due' \in [Tasks -> Nat]
    BY <1>10 DEF Tick, TypeOK, Until
  <2> QED BY <1>10, <2>1, <2>2, <2>3 DEF Tick, TypeOK
<1>11. CASE UNCHANGED vars
  BY <1>11 DEF TypeOK, vars, rows, clock
<1> QED
  BY <1>1, <1>2, <1>3, <1>4, <1>5, <1>6, <1>7, <1>8, <1>9, <1>10, <1>11
  DEF Next, Finish

\* The queue is type correct.
THEOREM TypeCorrect == Spec => []TypeOK
  BY InitTypeOK, NextTypeOK, PTL DEF Spec

-----------------------------------------------------------------------------
(* The inductive invariant *)

\* Nothing is leased, attempted, checkpointed or held in the initial state.
LEMMA InitInv == Init => Inv
<1> SUFFICES ASSUME Init PROVE Inv
  OBVIOUS
<1>1. \A w \in Workers : ~ Busy(w)
  BY DEF Init, Busy
<1>2. LeaseInv
  BY <1>1 DEF Init, LeaseInv, LeasedIffOwned, JobInv, LeaseHolderUndisturbed,
     OwnerIsCurrentAttempt, OneWorkerPerAttempt
<1>3. AttemptBudget /\ AbsentIsFresh /\ DependenciesFirst /\ CheckpointsContiguous
  BY QueueAssumption DEF QueueAssumption, Init, AttemptBudget, Queued, AbsentIsFresh,
     DependenciesFirst, CheckpointsContiguous
<1> QED BY <1>2, <1>3, InitTypeOK DEF Inv

\* Steps that change no row, checkpoint or job keep the invariant.
LEMMA FrameInv ==
  ASSUME Inv, TypeOK',
         UNCHANGED <<state, attempt, leaseOwner, leaseLeft, checkpoints, job>>
  PROVE  Inv'
  BY DEF Inv, AttemptBudget, AbsentIsFresh, DependenciesFirst, DepsSucceeded,
     LeaseInv, LeasedIffOwned, JobInv, LeaseHolderUndisturbed, OwnsTask,
     OwnerIsCurrentAttempt, OneWorkerPerAttempt, CheckpointsContiguous, Busy

\* A batch enters the queue untried; no row that is leased or held changes.
LEMMA AddTasksInv ==
  ASSUME Inv, TypeOK', NEW batch \in SUBSET Tasks, AddTasks(batch)
  PROVE  Inv'
<1> USE DEF Inv
<1>1. \A t \in Tasks : state'[t] # state[t] =>
        state[t] = "ABSENT" /\ state'[t] = "PENDING"
  BY DEF TypeOK, AddTasks, Added
<1>2. AttemptBudget' /\ AbsentIsFresh'
  BY <1>1, QueueAssumption
  DEF QueueAssumption, TypeOK, AddTasks, AttemptBudget, AbsentIsFresh, Queued
<1>3. DependenciesFirst'
  BY <1>1, QueueAssumption
  DEF QueueAssumption, AddTasks, DependenciesFirst, DepsSucceeded
<1>4. LeaseInv'
  BY <1>1, BusyJob DEF AddTasks, LeaseInv, LeasedIffOwned, JobInv,
     LeaseHolderUndisturbed, OwnsTask, OwnerIsCurrentAttempt,
     OneWorkerPerAttempt, Busy
<1>5. CheckpointsContiguous'
  BY DEF AddTasks, CheckpointsContiguous
<1> QED BY <1>2, <1>3, <1>4, <1>5

\* A lease starts the next attempt of a queued row: nobody holds that attempt
\* yet, and nobody still counts on the lease of an earlier one.
LEMMA LeaseNextTaskInv ==
  ASSUME Inv, TypeOK', NEW w \in Workers, NEW t \in Tasks, NEW scope,
         LeaseNextTask(w, t, scope)
  PROVE  Inv'
<1> USE DEF Inv
<1>1. /\ state[t] \in Queued
      /\ DepsSucceeded(t)
      /\ leaseOwner[t] = NoWorker
  BY DEF LeaseNextTask, Selected, Claimable, LeaseInv, LeasedIffOwned, Queued, TypeOK
<1>2. /\ state' = [state EXCEPT ![t] = "LEASED"]
      /\ attempt' = [attempt EXCEPT ![t] = @ + 1]
      /\ leaseOwner' = [leaseOwner EXCEPT ![t] = w]
      /\ leaseLeft' = [leaseLeft EXCEPT ![t] = LeaseSeconds]
      /\ checkpoints' = checkpoints
  BY DEF LeaseNextTask, NextAttempt
<1>3. /\ job'[w] = [task |-> t, attempt |-> attempt[t] + 1, next |-> -1,
                    left |-> LeaseSeconds]
      /\ \A v \in Workers : v # w => job'[v] = job[v]
      /\ \A v \in Workers : v # w => (Busy(v)' <=> Busy(v))
  BY DEF LeaseNextTask, NextAttempt, TypeOK, Busy
<1>4. AttemptBudget' /\ AbsentIsFresh'
  <2>1. attempt[t] < MaxAttempts[t] /\ attempt[t] \in Nat /\ MaxAttempts[t] \in Nat
    BY <1>1, QueueAssumption DEF QueueAssumption, AttemptBudget, TypeOK
  <2>2. state'[t] = "LEASED" /\ attempt'[t] = attempt[t] + 1
    BY <1>2 DEF TypeOK
  <2>3. \A u \in Tasks : u # t => state'[u] = state[u] /\ attempt'[u] = attempt[u]
    BY <1>2 DEF TypeOK
  <2> QED BY <2>1, <2>2, <2>3 DEF AttemptBudget, AbsentIsFresh, Queued
<1>5. DependenciesFirst'
  <2>1. \A u \in Tasks : state[u] = "SUCCEEDED" => state'[u] = "SUCCEEDED"
    BY <1>1, <1>2 DEF TypeOK, Queued
  <2>2. \A u \in Tasks : u # t => attempt'[u] = attempt[u]
    BY <1>2 DEF TypeOK
  <2> QED BY <1>1, <2>1, <2>2, QueueAssumption
          DEF QueueAssumption, DependenciesFirst, DepsSucceeded
<1>6. LeasedIffOwned'
  BY <1>2, QueueAssumption DEF QueueAssumption, TypeOK, LeaseInv, LeasedIffOwned
<1>7. \A v \in Workers : v # w /\ Busy(v) =>
        /\ job[v].task = t => job[v].left < 0 /\ job[v].attempt < attempt'[t]
        /\ job[v].task # t => leaseOwner'[job[v].task] = leaseOwner[job[v].task]
  <2> SUFFICES ASSUME NEW v \in Workers, v # w, Busy(v)
               PROVE  /\ job[v].task = t => job[v].left < 0 /\ job[v].attempt < attempt'[t]
                      /\ job[v].task # t => leaseOwner'[job[v].task] = leaseOwner[job[v].task]
    OBVIOUS
  <2>1. job[v].task \in Tasks /\ job[v].attempt \in Nat /\ job[v].left \in Int
    BY BusyJob
  <2>2. job[v].attempt <= attempt[job[v].task]
    BY DEF LeaseInv, JobInv
  <2>3. job[v].task = t => ~ (job[v].left >= 0)
    BY <1>1 DEF LeaseInv, LeaseHolderUndisturbed, OwnsTask, Queued
  <2> QED BY <1>2, <2>1, <2>2, <2>3 DEF TypeOK
<1>8. JobInv'
  <2> SUFFICES ASSUME NEW v \in Workers, Busy(v)'
               PROVE  /\ job'[v].attempt <= attempt'[job'[v].task]
                      /\ job'[v].left >= 0 => job'[v].left = leaseLeft'[job'[v].task]
                      /\ \A s \in Steps : s < job'[v].next =>
                           checkpoints'[job'[v].task][s] # 0
    BY DEF JobInv
  <2>1. CASE v = w
    BY <1>2, <1>3, <2>1 DEF TypeOK, Steps
  <2>2. CASE v # w
    <3>1. Busy(v) /\ job'[v] = job[v] /\ job[v].task \in Tasks
          /\ job[v].left \in Int /\ job[v].attempt \in Nat
      BY <1>3, <2>2, BusyJob
    <3> QED BY <1>2, <1>7, <2>2, <3>1 DEF TypeOK, LeaseInv, JobInv
  <2> QED BY <2>1, <2>2
<1>9. LeaseHolderUndisturbed'
  <2> SUFFICES ASSUME NEW v \in Workers, Busy(v)', job'[v].left >= 0
               PROVE  OwnsTask(v, job[v].task)' /\ job'[v].attempt = attempt'[job'[v].task]
    BY DEF LeaseHolderUndisturbed
  <2>1. CASE v = w
    BY <1>2, <1>3, <2>1 DEF TypeOK, OwnsTask
  <2>2. CASE v # w
    <3>1. Busy(v) /\ job'[v] = job[v] /\ job[v].task \in Tasks /\ job[v].left \in Int
      BY <1>3, <2>2, BusyJob
    <3>2. job[v].task # t
      BY <1>7, <2>2, <3>1
    <3> QED BY <1>2, <3>1, <3>2 DEF TypeOK, LeaseInv, LeaseHolderUndisturbed, OwnsTask
  <2> QED BY <2>1, <2>2
<1>10. OwnerIsCurrentAttempt'
  <2> SUFFICES ASSUME NEW v \in Workers, Busy(v)', leaseOwner'[job'[v].task] = v
               PROVE  job'[v].attempt = attempt'[job'[v].task]
    BY DEF OwnerIsCurrentAttempt
  <2>1. CASE v = w
    BY <1>2, <1>3, <2>1 DEF TypeOK
  <2>2. CASE v # w
    <3>1. Busy(v) /\ job'[v] = job[v] /\ job[v].task \in Tasks
      BY <1>3, <2>2, BusyJob
    <3>2. job[v].task # t
      BY <1>2, <2>2, <3>1 DEF TypeOK
    <3> QED BY <1>2, <3>1, <3>2 DEF TypeOK, LeaseInv, OwnerIsCurrentAttempt
  <2> QED BY <2>1, <2>2
<1>11. OneWorkerPerAttempt'
  <2>1. attempt'[t] = attempt[t] + 1 /\ attempt[t] \in Nat
    BY <1>2 DEF TypeOK
  <2>2. \A v \in Workers : v # w /\ Busy(v) =>
          job[v].task # t \/ job[v].attempt # attempt[t] + 1
    BY <1>7, <2>1, BusyJob
  <2> QED BY <1>3, <2>2 DEF LeaseInv, OneWorkerPerAttempt
<1>12. CheckpointsContiguous'
  BY <1>2 DEF CheckpointsContiguous
<1> QED BY <1>4, <1>5, <1>6, <1>8, <1>9, <1>10, <1>11, <1>12 DEF LeaseInv

\* Completion ends the lease of the worker that holds the current attempt.
LEMMA CompleteTaskInv ==
  ASSUME Inv, TypeOK', NEW w \in Workers, CompleteTask(w)
  PROVE  Inv'
<1> USE DEF Inv
<1> DEFINE t == job[w].task
<1>1. /\ Busy(w) /\ t \in Tasks
      /\ state[t] = "LEASED" /\ leaseOwner[t] = w
  BY BusyJob DEF CompleteTask, OwnsTask
<1>2. /\ state' = [state EXCEPT ![t] = "SUCCEEDED"]
      /\ leaseOwner' = [leaseOwner EXCEPT ![t] = NoWorker]
      /\ leaseLeft' = [leaseLeft EXCEPT ![t] = 0]
      /\ UNCHANGED <<attempt, checkpoints>>
  BY DEF CompleteTask
<1>3. \A v \in Workers : Busy(v)' => v # w /\ Busy(v) /\ job'[v] = job[v]
  BY DEF CompleteTask, TypeOK, Busy
<1>4. \A u \in Tasks : u # t => /\ state'[u] = state[u] /\ leaseOwner'[u] = leaseOwner[u]
                                /\ leaseLeft'[u] = leaseLeft[u]
  BY <1>2 DEF TypeOK
<1>5. /\ state'[t] = "SUCCEEDED" /\ leaseOwner'[t] = NoWorker
  BY <1>1, <1>2 DEF TypeOK
<1>6. \A v \in Workers : Busy(v)' /\ job[v].left >= 0 => job[v].task # t
  BY <1>1, <1>3 DEF LeaseInv, LeaseHolderUndisturbed, OwnsTask
<1> HIDE DEF t
<1>7. AttemptBudget' /\ AbsentIsFresh'
  BY <1>1, <1>2, <1>4, <1>5 DEF AttemptBudget, AbsentIsFresh, Queued
<1>8. DependenciesFirst'
  BY <1>1, <1>2, <1>4, <1>5, QueueAssumption
  DEF QueueAssumption, DependenciesFirst, DepsSucceeded
<1>9. LeasedIffOwned'
  BY <1>4, <1>5 DEF LeaseInv, LeasedIffOwned
<1>10. JobInv'
  BY <1>2, <1>3, <1>4, <1>6, BusyJob DEF LeaseInv, JobInv
<1>11. LeaseHolderUndisturbed'
  BY <1>2, <1>3, <1>4, <1>6, BusyJob DEF LeaseInv, LeaseHolderUndisturbed, OwnsTask
<1>12. OwnerIsCurrentAttempt'
  BY <1>2, <1>3, <1>4, <1>5, BusyJob, QueueAssumption
  DEF QueueAssumption, LeaseInv, OwnerIsCurrentAttempt
<1>13. OneWorkerPerAttempt'
  BY <1>3 DEF LeaseInv, OneWorkerPerAttempt
<1>14. CheckpointsContiguous'
  BY <1>2 DEF CheckpointsContiguous
<1> QED BY <1>7, <1>8, <1>9, <1>10, <1>11, <1>12, <1>13, <1>14 DEF LeaseInv

\* A worker that lets go of its task leaves the row as it is.
LEMMA DropJobInv ==
  ASSUME Inv, TypeOK', NEW w \in Workers,
         job' = [job EXCEPT ![w] = NoJob], UNCHANGED <<rows, checkpoints>>
  PROVE  Inv'
<1> USE DEF Inv, rows
<1>1. \A v \in Workers : Busy(v)' => Busy(v) /\ job'[v] = job[v]
  BY DEF TypeOK, Busy
<1>2. AttemptBudget' /\ AbsentIsFresh' /\ DependenciesFirst' /\ LeasedIffOwned'
      /\ CheckpointsContiguous'
  BY DEF AttemptBudget, AbsentIsFresh, DependenciesFirst, DepsSucceeded, LeaseInv,
     LeasedIffOwned, CheckpointsContiguous
<1>3. JobInv' /\ LeaseHolderUndisturbed' /\ OwnerIsCurrentAttempt' /\ OneWorkerPerAttempt'
  BY <1>1 DEF LeaseInv, JobInv, LeaseHolderUndisturbed, OwnsTask,
     OwnerIsCurrentAttempt, OneWorkerPerAttempt
<1> QED BY <1>2, <1>3 DEF LeaseInv

\* Steps that move one worker on in its attempt, and perhaps fill a checkpoint,
\* keep the invariant if the steps before the new position are checkpointed.
LEMMA MoveOnInv ==
  ASSUME Inv, TypeOK', NEW w \in Workers, NEW n \in 0..(MaxStep + 1),
         Busy(w), UNCHANGED rows,
         job' = [job EXCEPT ![w].next = n],
         \A t \in Tasks : \A s \in Steps : checkpoints[t][s] # 0 => checkpoints'[t][s] # 0,
         \A s \in Steps : s < n => checkpoints'[job[w].task][s] # 0,
         CheckpointsContiguous'
  PROVE  Inv'
<1> USE DEF Inv, rows
<1>1. job[w] \in Jobs /\ job[w].task \in Tasks
  BY BusyJob
<1>2. /\ job'[w].next = n /\ job'[w].task = job[w].task
      /\ job'[w].attempt = job[w].attempt /\ job'[w].left = job[w].left
  BY <1>1 DEF TypeOK, Jobs
<1>3. \A v \in Workers : v # w => job'[v] = job[v]
  BY DEF TypeOK
<1>4. \A v \in Workers : Busy(v)' => Busy(v)
  BY <1>3 DEF Busy
<1>5. AttemptBudget' /\ AbsentIsFresh' /\ DependenciesFirst' /\ LeasedIffOwned'
  BY DEF AttemptBudget, AbsentIsFresh, DependenciesFirst, DepsSucceeded, LeaseInv,
     LeasedIffOwned
<1>6. JobInv'
  <2> SUFFICES ASSUME NEW v \in Workers, Busy(v)'
               PROVE  /\ job'[v].attempt <= attempt[job'[v].task]
                      /\ job'[v].left >= 0 => job'[v].left = leaseLeft[job'[v].task]
                      /\ \A s \in Steps : s < job'[v].next =>
                           checkpoints'[job'[v].task][s] # 0
    BY DEF JobInv
  <2>1. Busy(v) /\ job[v].task \in Tasks
    BY <1>4, BusyJob
  <2>2. CASE v = w
    BY <1>2, <2>1, <2>2 DEF LeaseInv, JobInv
  <2>3. CASE v # w
    BY <1>3, <2>1, <2>3 DEF LeaseInv, JobInv
  <2> QED BY <2>2, <2>3
<1>7. \A v \in Workers : job'[v].task = job[v].task /\ job'[v].attempt = job[v].attempt
                         /\ job'[v].left = job[v].left
  BY <1>2, <1>3
<1>8. LeaseHolderUndisturbed' /\ OwnerIsCurrentAttempt' /\ OneWorkerPerAttempt'
  BY <1>4, <1>7 DEF LeaseInv, LeaseHolderUndisturbed, OwnsTask, OwnerIsCurrentAttempt,
     OneWorkerPerAttempt
<1> QED BY <1>5, <1>6, <1>8 DEF LeaseInv

\* Reading the latest checkpoint tells the worker that all earlier ones exist.
LEMMA ResumeCheckpointInv ==
  ASSUME Inv, TypeOK', NEW w \in Workers, ResumeCheckpoint(w)
  PROVE  Inv'
<1>1. PICK n \in 0..(MaxStep + 1) :
        IsResumeStep(job[w].task, n) /\ job' = [job EXCEPT ![w].next = n]
  BY DEF ResumeCheckpoint
<1>2. Busy(w) /\ UNCHANGED rows /\ checkpoints' = checkpoints
  BY DEF ResumeCheckpoint
<1>3. job[w].task \in Tasks
  BY <1>2, BusyJob DEF Inv
<1>4. \A s \in Steps : s < n => checkpoints[job[w].task][s] # 0
  <2> SUFFICES ASSUME NEW s \in Steps, s < n PROVE checkpoints[job[w].task][s] # 0
    OBVIOUS
  <2>1. n - 1 \in Steps /\ checkpoints[job[w].task][n - 1] # 0
    BY <1>1, QueueAssumption DEF QueueAssumption, IsResumeStep, Steps
  <2>2. s = n - 1 \/ s < n - 1
    BY DEF Steps
  <2> QED BY <1>3, <2>1, <2>2 DEF Inv, CheckpointsContiguous
<1>5. CheckpointsContiguous'
  BY <1>2 DEF Inv, CheckpointsContiguous
<1> QED BY <1>1, <1>2, <1>3, <1>4, <1>5, MoveOnInv

\* A worker fills the checkpoint after those that are there, or finds it filled.
LEMMA SaveCheckpointInv ==
  ASSUME Inv, TypeOK', NEW w \in Workers, SaveCheckpoint(w)
  PROVE  Inv'
<1> DEFINE t == job[w].task
           n == job[w].next
<1>1. Busy(w) /\ UNCHANGED rows /\ n \in Steps
  BY DEF SaveCheckpoint
<1>2. t \in Tasks /\ job[w].attempt \in Nat \ {0} /\ job[w] \in Jobs
  BY <1>1, BusyJob DEF Inv
<1>3. checkpoints' = [checkpoints EXCEPT ![t][n] = StoredCheckpoint(t, n, job[w].attempt)]
  BY DEF SaveCheckpoint
<1>4. checkpoints'[t][n] # 0
  BY <1>1, <1>2, <1>3 DEF Inv, TypeOK, StoredCheckpoint
<1>5. \A u \in Tasks : \A s \in Steps :
        u # t \/ s # n => checkpoints'[u][s] = checkpoints[u][s]
  BY <1>1, <1>2, <1>3 DEF Inv, TypeOK
<1>6. \A s \in Steps : s < n => checkpoints[t][s] # 0
  BY <1>1 DEF Inv, LeaseInv, JobInv
<1>7. \A s \in Steps : s < n + 1 => checkpoints'[t][s] # 0
  <2> SUFFICES ASSUME NEW s \in Steps, s < n + 1 PROVE checkpoints'[t][s] # 0
    OBVIOUS
  <2>1. s = n \/ s < n
    BY <1>1 DEF Steps
  <2> QED BY <1>2, <1>4, <1>5, <1>6, <2>1
<1>8. \A u \in Tasks : \A s \in Steps : checkpoints[u][s] # 0 => checkpoints'[u][s] # 0
  BY <1>4, <1>5
<1>9. CheckpointsContiguous'
  <2> SUFFICES ASSUME NEW u \in Tasks, NEW s \in Steps, checkpoints'[u][s] # 0,
                      NEW r \in Steps, r < s
               PROVE  checkpoints'[u][r] # 0
    BY DEF CheckpointsContiguous
  <2>1. CASE u = t /\ s = n
    <3>1. r < n + 1
      BY <1>1, <2>1 DEF Steps
    <3> QED BY <1>7, <2>1, <3>1
  <2>2. CASE u # t \/ s # n
    BY <1>5, <1>8, <2>2 DEF Inv, CheckpointsContiguous
  <2> QED BY <2>1, <2>2
<1>10. job' = [job EXCEPT ![w].next = n + 1]
  BY DEF SaveCheckpoint
<1>11. n + 1 \in 0..(MaxStep + 1)
  BY <1>1, QueueAssumption DEF QueueAssumption, Steps
<1> QED BY <1>1, <1>7, <1>8, <1>9, <1>10, <1>11, MoveOnInv

\* A heartbeat renews the lease of the worker the row names, who is in the
\* current attempt.
LEMMA PulseInv ==
  ASSUME Inv, TypeOK', NEW w \in Workers, Pulse(w)
  PROVE  Inv'
<1> USE DEF Inv
<1> DEFINE t == job[w].task
<1>1. /\ Busy(w) /\ t \in Tasks /\ job[w] \in Jobs
      /\ state[t] = "LEASED" /\ leaseOwner[t] = w
  BY BusyJob DEF Pulse, Renewable, OwnsTask
<1>2. /\ leaseLeft' = [leaseLeft EXCEPT ![t] = LeaseSeconds]
      /\ UNCHANGED <<state, attempt, leaseOwner, checkpoints>>
  BY DEF Pulse
<1>3. /\ job'[w].left = LeaseSeconds /\ job'[w].task = t
      /\ job'[w].attempt = job[w].attempt /\ job'[w].next = job[w].next
  BY <1>1 DEF Pulse, TypeOK, Jobs
<1>4. \A v \in Workers : v # w => job'[v] = job[v]
  BY DEF Pulse, TypeOK
<1>5. \A v \in Workers : Busy(v)' => Busy(v)
  BY <1>1, <1>4 DEF Busy
<1>6. \A v \in Workers : job'[v].task = job[v].task /\ job'[v].attempt = job[v].attempt
  BY <1>3, <1>4
<1>7. leaseLeft'[t] = LeaseSeconds /\ \A u \in Tasks : u # t => leaseLeft'[u] = leaseLeft[u]
  BY <1>1, <1>2 DEF TypeOK
<1>8. job[w].attempt = attempt[t]
  BY <1>1 DEF LeaseInv, OwnerIsCurrentAttempt
<1> HIDE DEF t
<1>9. AttemptBudget' /\ AbsentIsFresh' /\ DependenciesFirst' /\ LeasedIffOwned'
      /\ CheckpointsContiguous'
  BY <1>2 DEF AttemptBudget, AbsentIsFresh, DependenciesFirst, DepsSucceeded, LeaseInv,
     LeasedIffOwned, CheckpointsContiguous
<1>10. LeaseHolderUndisturbed'
  <2> SUFFICES ASSUME NEW v \in Workers, Busy(v)', job'[v].left >= 0
               PROVE  OwnsTask(v, job[v].task)' /\ job'[v].attempt = attempt'[job'[v].task]
    BY DEF LeaseHolderUndisturbed
  <2>1. CASE v = w
    BY <1>1, <1>2, <1>3, <1>8, <2>1 DEF OwnsTask
  <2>2. CASE v # w
    BY <1>2, <1>4, <1>5, <2>2 DEF LeaseInv, LeaseHolderUndisturbed, OwnsTask
  <2> QED BY <2>1, <2>2
<1>11. OwnerIsCurrentAttempt' /\ OneWorkerPerAttempt'
  BY <1>2, <1>5, <1>6 DEF LeaseInv, OwnerIsCurrentAttempt, OneWorkerPerAttempt
<1>12. JobInv'
  <2> SUFFICES ASSUME NEW v \in Workers, Busy(v)'
               PROVE  /\ job'[v].attempt <= attempt'[job'[v].task]
                      /\ job'[v].left >= 0 => job'[v].left = leaseLeft'[job'[v].task]
                      /\ \A s \in Steps : s < job'[v].next =>
                           checkpoints'[job'[v].task][s] # 0
    BY DEF JobInv
  <2>1. Busy(v) /\ job[v].task \in Tasks
    BY <1>5, BusyJob
  <2>2. CASE v = w
    BY <1>1, <1>2, <1>3, <1>7, <2>1, <2>2 DEF LeaseInv, JobInv, t
  <2>3. CASE v # w
    <3>1. job'[v].left >= 0 => job[v].task # t
      BY <1>1, <1>4, <2>1, <2>3 DEF LeaseInv, LeaseHolderUndisturbed, OwnsTask
    <3> QED BY <1>2, <1>4, <1>7, <2>1, <2>3, <3>1 DEF LeaseInv, JobInv
  <2> QED BY <2>2, <2>3
<1> QED BY <1>9, <1>10, <1>11, <1>12 DEF LeaseInv

\* Recovery takes rows only from workers whose own count of the lease is over.
LEMMA RecoverInv ==
  ASSUME Inv, TypeOK', RecoverExpiredLeases
  PROVE  Inv'
<1> USE DEF Inv
<1>1. \A t \in Tasks : Expired(t) =>
        /\ state[t] = "LEASED" /\ state'[t] = RecoveredState(t) /\ leaseOwner'[t] = NoWorker
  BY DEF RecoverExpiredLeases, Expired
<1>2. \A t \in Tasks : ~ Expired(t) =>
        /\ state'[t] = state[t] /\ leaseOwner'[t] = leaseOwner[t]
        /\ leaseLeft'[t] = leaseLeft[t]
  BY DEF RecoverExpiredLeases
<1>3. UNCHANGED <<attempt, checkpoints, job>>
  BY DEF RecoverExpiredLeases
<1>4. AttemptBudget' /\ AbsentIsFresh'
  <2> SUFFICES ASSUME NEW t \in Tasks
               PROVE  /\ attempt'[t] <= MaxAttempts[t]
                      /\ state'[t] \in Queued => attempt'[t] < MaxAttempts[t]
                      /\ state'[t] = "FAILED" => attempt'[t] = MaxAttempts[t]
                      /\ state'[t] = "ABSENT" => attempt'[t] = 0
    BY DEF AttemptBudget, AbsentIsFresh
  <2>1. attempt[t] \in Nat /\ MaxAttempts[t] \in Nat
    BY QueueAssumption DEF QueueAssumption, TypeOK
  <2>2. CASE Expired(t)
    BY <1>1, <1>3, <2>1, <2>2 DEF RecoveredState, AttemptBudget, Queued
  <2>3. CASE ~ Expired(t)
    BY <1>2, <1>3, <2>3 DEF AttemptBudget, AbsentIsFresh
  <2> QED BY <2>2, <2>3
<1>5. DependenciesFirst'
  <2>1. \A t \in Tasks : state[t] = "SUCCEEDED" => state'[t] = "SUCCEEDED"
    BY <1>1, <1>2
  <2> QED BY <1>3, <2>1, QueueAssumption
          DEF QueueAssumption, DependenciesFirst, DepsSucceeded
<1>6. LeasedIffOwned'
  BY <1>1, <1>2 DEF RecoveredState, LeaseInv, LeasedIffOwned
<1>7. \A w \in Workers : Busy(w) =>
        /\ job[w].task \in Tasks
        /\ job[w].left >= 0 => ~ Expired(job[w].task)
  BY BusyJob DEF LeaseInv, JobInv, Expired, TypeOK
<1>8. JobInv' /\ LeaseHolderUndisturbed'
  BY <1>2, <1>3, <1>7 DEF LeaseInv, JobInv, LeaseHolderUndisturbed, OwnsTask, Busy
<1>9. OwnerIsCurrentAttempt'
  BY <1>1, <1>2, <1>3, <1>7, QueueAssumption
  DEF QueueAssumption, LeaseInv, OwnerIsCurrentAttempt, Busy
<1>10. OneWorkerPerAttempt' /\ CheckpointsContiguous'
  BY <1>3 DEF LeaseInv, OneWorkerPerAttempt, CheckpointsContiguous, Busy
<1> QED BY <1>4, <1>5, <1>6, <1>8, <1>9, <1>10 DEF LeaseInv

\* Time runs equally fast for a row and for the worker that leased it.
LEMMA TickInv ==
  ASSUME Inv, TypeOK', Tick
  PROVE  Inv'
<1> USE DEF Inv
<1>1. UNCHANGED <<state, attempt, leaseOwner, checkpoints>>
  BY DEF Tick
<1>2. \A w \in Workers : Busy(w)' => Busy(w)
  BY DEF Tick, Busy
<1>3. \A w \in Workers : Busy(w) =>
        /\ job'[w].task = job[w].task /\ job'[w].attempt = job[w].attempt
        /\ job'[w].next = job[w].next /\ job'[w].left = Left(job[w].left)
  <2> SUFFICES ASSUME NEW w \in Workers, Busy(w)
               PROVE  /\ job'[w].task = job[w].task /\ job'[w].attempt = job[w].attempt
                      /\ job'[w].next = job[w].next /\ job'[w].left = Left(job[w].left)
    OBVIOUS
  <2>1. job[w] \in Jobs
    BY BusyJob
  <2>2. job'[w] = [job[w] EXCEPT !.left = Left(@)]
    BY DEF Tick
  <2> QED BY <2>1, <2>2 DEF Jobs
<1>4. AttemptBudget' /\ AbsentIsFresh' /\ DependenciesFirst' /\ LeasedIffOwned'
      /\ CheckpointsContiguous'
  BY <1>1 DEF AttemptBudget, AbsentIsFresh, DependenciesFirst, DepsSucceeded, LeaseInv,
     LeasedIffOwned, CheckpointsContiguous
<1>5. \A w \in Workers : Busy(w)' /\ job'[w].left >= 0 =>
        job[w].left >= 0 /\ job'[w].left = job[w].left - 1
  BY <1>2, <1>3, BusyJob DEF Left
<1>6. LeaseHolderUndisturbed'
  BY <1>1, <1>2, <1>3, <1>5 DEF LeaseInv, LeaseHolderUndisturbed, OwnsTask
<1>7. OwnerIsCurrentAttempt' /\ OneWorkerPerAttempt'
  BY <1>1, <1>2, <1>3 DEF LeaseInv, OwnerIsCurrentAttempt, OneWorkerPerAttempt
<1>8. JobInv'
  <2> SUFFICES ASSUME NEW w \in Workers, Busy(w)'
               PROVE  /\ job'[w].attempt <= attempt'[job'[w].task]
                      /\ job'[w].left >= 0 => job'[w].left = leaseLeft'[job'[w].task]
                      /\ \A s \in Steps : s < job'[w].next =>
                           checkpoints'[job'[w].task][s] # 0
    BY DEF JobInv
  <2>1. Busy(w) /\ job[w].task \in Tasks
    BY <1>2, BusyJob
  <2>2. ASSUME job'[w].left >= 0 PROVE job'[w].left = leaseLeft'[job'[w].task]
    <3>1. job[w].left >= 0 /\ job'[w].left = job[w].left - 1
      BY <1>5, <2>2
    <3>2. leaseOwner[job[w].task] = w /\ leaseLeft[job[w].task] = job[w].left
      BY <2>1, <3>1 DEF LeaseInv, JobInv, LeaseHolderUndisturbed, OwnsTask
    <3>3. leaseLeft'[job[w].task] = Left(leaseLeft[job[w].task])
      BY <2>1, <3>2, QueueAssumption DEF QueueAssumption, Tick
    <3> QED BY <1>3, <2>1, <3>1, <3>2, <3>3 DEF Left
  <2>3. job'[w].attempt <= attempt'[job'[w].task]
    BY <1>1, <1>3, <2>1 DEF LeaseInv, JobInv
  <2>4. \A s \in Steps : s < job'[w].next => checkpoints'[job'[w].task][s] # 0
    BY <1>1, <1>3, <2>1 DEF LeaseInv, JobInv
  <2> QED BY <2>2, <2>3, <2>4
<1> QED BY <1>4, <1>6, <1>7, <1>8 DEF LeaseInv

\* Every step of the queue keeps the invariant.
LEMMA NextInv == Inv /\ [Next]_vars => Inv'
<1> SUFFICES ASSUME Inv, [Next]_vars PROVE Inv'
  OBVIOUS
<1> TypeOK'
  BY NextTypeOK DEF Inv
<1>1. ASSUME NEW r \in Runs, CreateRun(r) PROVE Inv'
  BY <1>1, FrameInv DEF CreateRun
<1>2. ASSUME NEW batch \in SUBSET Tasks, AddTasks(batch) PROVE Inv'
  BY <1>2, AddTasksInv
<1>3. ASSUME NEW w \in Workers, Lease(w) PROVE Inv'
  BY <1>3, LeaseNextTaskInv DEF Lease
<1>4. ASSUME NEW w \in Workers, ResumeCheckpoint(w) PROVE Inv'
  BY <1>4, ResumeCheckpointInv
<1>5. ASSUME NEW w \in Workers, SaveCheckpoint(w) PROVE Inv'
  BY <1>5, SaveCheckpointInv
<1>6. ASSUME NEW w \in Workers, Pulse(w) PROVE Inv'
  BY <1>6, PulseInv
<1>7. ASSUME NEW w \in Workers, PulseRefused(w) \/ CompleteRefused(w) \/ Abandon(w)
      PROVE  Inv'
  BY <1>7, DropJobInv DEF PulseRefused, CompleteRefused, Abandon
<1>8. ASSUME NEW w \in Workers, CompleteTask(w) PROVE Inv'
  BY <1>8, CompleteTaskInv
<1>9. ASSUME RecoverExpiredLeases PROVE Inv'
  BY <1>9, RecoverInv
<1>10. ASSUME Tick PROVE Inv'
  BY <1>10, TickInv
<1>11. CASE UNCHANGED vars
  BY <1>11, FrameInv DEF vars, rows
<1> QED
  BY <1>1, <1>2, <1>3, <1>4, <1>5, <1>6, <1>7, <1>8, <1>9, <1>10, <1>11
  DEF Next, Finish

\* The invariant holds in every reachable state.
THEOREM Invariance == Spec => []Inv
  BY InitInv, NextInv, PTL DEF Spec

-----------------------------------------------------------------------------
(* The safety properties *)

\* No task starts before its dependencies have succeeded.
THEOREM DependenciesFirstHolds == Spec => []DependenciesFirst
<1>1. Inv => DependenciesFirst
  BY DEF Inv
<1> QED BY <1>1, Invariance, PTL

\* No task is leased more often than max_attempts allows.
THEOREM AttemptBudgetHolds == Spec => []AttemptBudget
<1>1. Inv => AttemptBudget
  BY DEF Inv
<1> QED BY <1>1, Invariance, PTL

\* No worker is disturbed while its lease lasts.
THEOREM LeaseHolderUndisturbedHolds == Spec => []LeaseHolderUndisturbed
<1>1. Inv => LeaseHolderUndisturbed
  BY DEF Inv, LeaseInv
<1> QED BY <1>1, Invariance, PTL

\* No attempt is ever in the hands of two workers.
THEOREM OneWorkerPerAttemptHolds == Spec => []OneWorkerPerAttempt
<1>1. Inv => OneWorkerPerAttempt
  BY DEF Inv, LeaseInv
<1> QED BY <1>1, Invariance, PTL

\* The name of the owner stands for the current attempt.
THEOREM OwnerIsCurrentAttemptHolds == Spec => []OwnerIsCurrentAttempt
<1>1. Inv => OwnerIsCurrentAttempt
  BY DEF Inv, LeaseInv
<1> QED BY <1>1, Invariance, PTL

\* The checkpoints of a task have no gap.
THEOREM CheckpointsContiguousHolds == Spec => []CheckpointsContiguous
<1>1. Inv => CheckpointsContiguous
  BY DEF Inv
<1> QED BY <1>1, Invariance, PTL

-----------------------------------------------------------------------------
(* What a step may do *)

\* How each kind of step changes the rows of tasks.
LEMMA RowChange ==
  ASSUME Inv, [Next]_vars
  PROVE  \/ UNCHANGED <<state, attempt>>
         \/ \E batch \in SUBSET Tasks : AddTasks(batch)
         \/ \E t \in Tasks :
              /\ state[t] \in Queued /\ attempt[t] < MaxAttempts[t] /\ DepsSucceeded(t)
              /\ state' = [state EXCEPT ![t] = "LEASED"]
              /\ attempt' = [attempt EXCEPT ![t] = @ + 1]
         \/ \E w \in Workers :
              /\ CompleteTask(w)
              /\ Busy(w) /\ job[w].task \in Tasks /\ OwnsTask(w, job[w].task)
              /\ job[w].attempt = attempt[job[w].task]
         \/ RecoverExpiredLeases
<1>1. ASSUME NEW w \in Workers, NEW scope, NEW t \in Tasks, LeaseNextTask(w, t, scope)
      PROVE  /\ state[t] \in Queued /\ attempt[t] < MaxAttempts[t] /\ DepsSucceeded(t)
             /\ state' = [state EXCEPT ![t] = "LEASED"]
             /\ attempt' = [attempt EXCEPT ![t] = @ + 1]
  BY <1>1 DEF LeaseNextTask, NextAttempt, Selected, Claimable, Inv, AttemptBudget
<1>2. ASSUME NEW w \in Workers, CompleteTask(w)
      PROVE  /\ Busy(w) /\ job[w].task \in Tasks /\ OwnsTask(w, job[w].task)
             /\ job[w].attempt = attempt[job[w].task]
  BY <1>2, BusyJob DEF CompleteTask, OwnsTask, Inv, LeaseInv, OwnerIsCurrentAttempt
<1>3. ASSUME NEW w \in Workers,
             ResumeCheckpoint(w) \/ SaveCheckpoint(w) \/ Pulse(w) \/ PulseRefused(w)
             \/ CompleteRefused(w) \/ Abandon(w)
      PROVE  UNCHANGED <<state, attempt>>
  BY <1>3 DEF ResumeCheckpoint, SaveCheckpoint, Pulse, PulseRefused, CompleteRefused,
     Abandon, rows
<1>4. ASSUME NEW r \in Runs, CreateRun(r) PROVE UNCHANGED <<state, attempt>>
  BY <1>4 DEF CreateRun
<1>5. Tick \/ UNCHANGED vars => UNCHANGED <<state, attempt>>
  BY DEF Tick, vars, rows
<1> QED BY <1>1, <1>2, <1>3, <1>4, <1>5 DEF Next, Lease, Finish

\* A finished task stays as it finished.
THEOREM TerminalIsFinalHolds == Spec => TerminalIsFinal
<1>1. ASSUME Inv, [Next]_vars, NEW t \in Tasks, state[t] \in Terminal
      PROVE  state'[t] = state[t] /\ attempt'[t] = attempt[t]
  <2> USE <1>1 DEF Terminal
  <2>1. CASE UNCHANGED <<state, attempt>>
    BY <2>1
  <2>2. ASSUME NEW batch \in SUBSET Tasks, AddTasks(batch)
        PROVE  state'[t] = state[t] /\ attempt'[t] = attempt[t]
    BY <2>2 DEF AddTasks, Added
  <2>3. ASSUME NEW u \in Tasks, state[u] \in Queued,
               state' = [state EXCEPT ![u] = "LEASED"],
               attempt' = [attempt EXCEPT ![u] = @ + 1]
        PROVE  state'[t] = state[t] /\ attempt'[t] = attempt[t]
    BY <2>3 DEF Queued, Inv, TypeOK
  <2>4. ASSUME NEW w \in Workers, CompleteTask(w)
        PROVE  state'[t] = state[t] /\ attempt'[t] = attempt[t]
    BY <2>4 DEF CompleteTask, OwnsTask, Inv, TypeOK
  <2>5. CASE RecoverExpiredLeases
    BY <2>5 DEF RecoverExpiredLeases, Expired
  <2> QED BY <2>1, <2>2, <2>3, <2>4, <2>5, RowChange
<1>2. Inv /\ [Next]_vars =>
        [\A t \in Tasks : state[t] \in Terminal =>
           state'[t] = state[t] /\ attempt'[t] = attempt[t]]_vars
  BY <1>1
<1> QED BY <1>2, Invariance, PTL DEF Spec, TerminalIsFinal

\* A task is completed by the worker that holds its current attempt.
THEOREM CurrentAttemptCompletesHolds == Spec => CurrentAttemptCompletes
<1> DEFINE ByCurrent(t) ==
      \E w \in Workers : /\ Busy(w) /\ job[w].task = t /\ job[w].attempt = attempt[t]
                         /\ job'[w] = NoJob
<1>1. ASSUME Inv, [Next]_vars, NEW t \in Tasks,
             state[t] # "SUCCEEDED", state'[t] = "SUCCEEDED"
      PROVE  ByCurrent(t)
  <2> USE <1>1
  <2>1. CASE UNCHANGED <<state, attempt>>
    BY <2>1
  <2>2. ASSUME NEW batch \in SUBSET Tasks, AddTasks(batch) PROVE ByCurrent(t)
    BY <2>2 DEF AddTasks
  <2>3. ASSUME NEW u \in Tasks, state' = [state EXCEPT ![u] = "LEASED"]
        PROVE  ByCurrent(t)
    BY <2>3 DEF Inv, TypeOK
  <2>4. ASSUME NEW w \in Workers, CompleteTask(w), Busy(w),
               job[w].attempt = attempt[job[w].task]
        PROVE  ByCurrent(t)
    <3>1. job[w].task = t
      BY <2>4 DEF CompleteTask, Inv, TypeOK
    <3>2. job'[w] = NoJob
      BY <2>4 DEF CompleteTask, Inv, TypeOK
    <3> QED BY <2>4, <3>1, <3>2
  <2>5. CASE RecoverExpiredLeases
    BY <2>5 DEF RecoverExpiredLeases, RecoveredState
  <2> QED BY <2>1, <2>2, <2>3, <2>4, <2>5, RowChange
<1>2. Inv /\ [Next]_vars =>
        [\A t \in Tasks : state[t] # "SUCCEEDED" /\ state'[t] = "SUCCEEDED" =>
           \E w \in Workers : /\ Busy(w) /\ job[w].task = t /\ job[w].attempt = attempt[t]
                              /\ job'[w] = NoJob]_vars
  BY <1>1
<1> QED BY <1>2, Invariance, PTL DEF Spec, CurrentAttemptCompletes

-----------------------------------------------------------------------------
(* Refinement *)

\* The initial state of the queue is the initial state of the lifecycle.
LEMMA InitLifecycle == Init => Lifecycle!Init
  BY DEF Init, Lifecycle!Init, Phase, PhaseOf

\* Every step of the queue is a step of the lifecycle or changes nothing there.
LEMMA NextLifecycle ==
  ASSUME Inv, [Next]_vars
  PROVE  [Lifecycle!Next]_<<Phase, attempt>>
<1> USE DEF Inv, TypeOK
<1>1. CASE UNCHANGED <<state, attempt>>
  BY <1>1 DEF Phase
<1>2. ASSUME NEW batch \in SUBSET Tasks, AddTasks(batch)
      PROVE  Lifecycle!Submit(batch)
  <2>1. \A t \in Tasks : Phase[t] = "unknown" <=> state[t] = "ABSENT"
    BY DEF Phase, PhaseOf, TaskStates
  <2>2. \A t \in batch : Phase[t] = "unknown"
                         /\ \A d \in Deps[t] : d \in batch \/ Phase[d] # "unknown"
    BY <1>2, <2>1, QueueAssumption DEF QueueAssumption, AddTasks, Added
  <2>3. Phase' = [t \in Tasks |-> IF t \in batch THEN "waiting" ELSE Phase[t]]
    BY <1>2 DEF AddTasks, Phase, PhaseOf
  <2> QED BY <1>2, <2>2, <2>3 DEF Lifecycle!Submit, AddTasks
<1>3. ASSUME NEW t \in Tasks, state[t] \in Queued, attempt[t] < MaxAttempts[t],
             DepsSucceeded(t),
             state' = [state EXCEPT ![t] = "LEASED"],
             attempt' = [attempt EXCEPT ![t] = @ + 1]
      PROVE  Lifecycle!Start(t)
  <2>1. Phase[t] = "waiting"
    BY <1>3 DEF Phase, PhaseOf, Queued
  <2>2. \A d \in Deps[t] : Phase[d] = "succeeded"
    <3>1. \A d \in Deps[t] : d \in Tasks /\ state[d] = "SUCCEEDED"
      BY <1>3, QueueAssumption DEF QueueAssumption, DepsSucceeded
    <3> QED BY <3>1 DEF Phase, PhaseOf
  <2>3. Phase' = [Phase EXCEPT ![t] = "running"]
    BY <1>3 DEF Phase, PhaseOf
  <2> QED BY <1>3, <2>1, <2>2, <2>3 DEF Lifecycle!Start
<1>4. ASSUME NEW w \in Workers, CompleteTask(w), job[w].task \in Tasks,
             OwnsTask(w, job[w].task)
      PROVE  Lifecycle!Succeed(job[w].task)
  <2>1. Phase[job[w].task] = "running"
    BY <1>4 DEF OwnsTask, Phase, PhaseOf
  <2>2. Phase' = [Phase EXCEPT ![job[w].task] = "succeeded"]
    BY <1>4 DEF CompleteTask, Phase, PhaseOf
  <2> QED BY <1>4, <2>1, <2>2 DEF CompleteTask, Lifecycle!Succeed
<1>5. CASE RecoverExpiredLeases
  <2> DEFINE lost == {t \in Tasks : Expired(t)}
  <2>1. \A t \in lost : Phase[t] = "running"
    BY DEF Expired, Phase, PhaseOf
  <2>2. \A t \in Tasks : attempt[t] \in Nat /\ MaxAttempts[t] \in Nat
    BY QueueAssumption DEF QueueAssumption
  <2>3. Phase' = [t \in Tasks |-> IF t \notin lost THEN Phase[t]
                                  ELSE IF attempt[t] < MaxAttempts[t] THEN "waiting"
                                  ELSE "failed"]
    BY <1>5, <2>2 DEF RecoverExpiredLeases, RecoveredState, Phase, PhaseOf
  <2>4. Lifecycle!TakeBack(lost)
    BY <1>5, <2>1, <2>3 DEF RecoverExpiredLeases, Lifecycle!TakeBack
  <2> QED BY <2>4 DEF Lifecycle!Next
<1> QED BY <1>1, <1>2, <1>3, <1>4, <1>5, RowChange DEF Lifecycle!Next

\* The queue implements the lifecycle.
THEOREM RefinesLifecycle == Spec => ImplementsLifecycle
  BY InitLifecycle, NextLifecycle, Invariance, PTL
  DEF Spec, ImplementsLifecycle, Lifecycle!Spec

-----------------------------------------------------------------------------
(* Row and event committed together *)

CInv == TypeOK /\ SucceededIffCommitted

\* Every step of the composition is a step of the queue, or none: a refused
\* completion looks to the queue like a worker that gave up.
LEMMA StepOfQueue == [TNext]_allVars => [Next]_vars
<1> SUFFICES ASSUME [TNext]_allVars PROVE [Next]_vars
  OBVIOUS
<1>1. CASE QueueStep
  BY <1>1 DEF QueueStep, Next
<1>2. ASSUME NEW w \in Workers, CompleteWithEvent(w) PROVE Next
  BY <1>2 DEF CompleteWithEvent, Next, Finish
<1>3. ASSUME NEW w \in Workers, CompleteWithEventRefused(w) PROVE Next
  <2>1. Abandon(w)
    BY <1>3 DEF CompleteWithEventRefused, Abandon
  <2> QED BY <2>1 DEF Next
<1>4. CASE OutboxStep
  BY <1>4 DEF OutboxStep
<1>5. CASE TTick
  BY <1>5 DEF TTick, Next
<1>6. CASE UNCHANGED allVars
  BY <1>6 DEF allVars
<1> QED BY <1>1, <1>2, <1>3, <1>4, <1>5, <1>6 DEF TNext

\* The composition implements the task queue.
THEOREM RunsTheQueue == TSpec => Spec
<1>1. TInit => Init
  BY DEF TInit
<1> QED BY <1>1, StepOfQueue, PTL DEF TSpec, Spec

-----------------------------------------------------------------------------
\* The steps of the queue that the composition takes over complete nothing and
\* reopen nothing.
LEMMA QueueStepKeepsSuccess ==
  ASSUME TypeOK, QueueStep, NEW t \in Tasks
  PROVE  state'[t] = "SUCCEEDED" <=> state[t] = "SUCCEEDED"
<1> USE DEF TypeOK
<1>1. ASSUME NEW r \in Runs, CreateRun(r) PROVE state' = state
  BY <1>1 DEF CreateRun
<1>2. ASSUME NEW batch \in SUBSET Tasks, AddTasks(batch)
      PROVE  state'[t] = "SUCCEEDED" <=> state[t] = "SUCCEEDED"
  BY <1>2 DEF AddTasks, Added
<1>3. ASSUME NEW w \in Workers, Lease(w)
      PROVE  state'[t] = "SUCCEEDED" <=> state[t] = "SUCCEEDED"
  <2> PICK scope \in Scopes, u \in Tasks : LeaseNextTask(w, u, scope)
    BY <1>3 DEF Lease
  <2>1. state[u] \in Queued /\ state' = [state EXCEPT ![u] = "LEASED"]
    BY DEF LeaseNextTask, Selected, Claimable
  <2> QED BY <2>1 DEF Queued
<1>4. ASSUME NEW w \in Workers,
             ResumeCheckpoint(w) \/ SaveCheckpoint(w) \/ Pulse(w) \/ PulseRefused(w) \/ Abandon(w)
      PROVE  state' = state
  BY <1>4 DEF ResumeCheckpoint, SaveCheckpoint, Pulse, PulseRefused, Abandon, rows
<1>5. ASSUME RecoverExpiredLeases
      PROVE  state'[t] = "SUCCEEDED" <=> state[t] = "SUCCEEDED"
  BY <1>5 DEF RecoverExpiredLeases, RecoveredState, Expired
<1> QED BY <1>1, <1>2, <1>3, <1>4, <1>5 DEF QueueStep

\* A worker that completes its task commits the event of that task and no other.
LEMMA CompleteWithEventStep ==
  ASSUME CInv, NEW w \in Workers, CompleteWithEvent(w)
  PROVE  SucceededIffCommitted'
<1> DEFINE t == job[w].task
<1>1. /\ state' = [state EXCEPT ![t] = "SUCCEEDED"]
      /\ outbox' = outbox \union {CompletionOf[t]}
  BY DEF CompleteWithEvent, CompleteTask, O!CommitWithOutbox
<1>2. t \in Tasks
  BY BusyJob DEF CInv, CompleteWithEvent, CompleteTask
<1> HIDE DEF t
<1> SUFFICES ASSUME NEW u \in Tasks
             PROVE  state'[u] = "SUCCEEDED" <=> CompletionOf[u] \in outbox'
  BY DEF SucceededIffCommitted
<1>3. CASE u = t
  BY <1>1, <1>2, <1>3 DEF CInv, TypeOK
<1>4. CASE u # t
  <2>1. CompletionOf[u] # CompletionOf[t]
    BY <1>2, <1>4, CompletionAssumption DEF CompletionAssumption
  <2> QED BY <1>1, <1>2, <1>4, <2>1 DEF CInv, TypeOK, SucceededIffCommitted
<1> QED BY <1>3, <1>4

\* Publishers and other callers add no row to the outbox.
LEMMA OutboxStepKeepsOutbox ==
  ASSUME OutboxStep PROVE outbox' = outbox /\ state' = state
  BY DEF OutboxStep, vars, rows, O!AppendEvent, O!Publish, O!Lease, O!Deliver, O!Mark,
     O!LeaseBatch, O!StartDelivery, O!EndDelivery, O!MarkPublished, O!MarkRefused,
     O!Abort, O!log

\* A task has succeeded exactly if its event is in the outbox.
THEOREM SucceededIffCommittedHolds == TSpec => []SucceededIffCommitted
<1>1. TInit => SucceededIffCommitted
  BY DEF TInit, Init, O!Init, SucceededIffCommitted
<1>2. ASSUME CInv, [TNext]_allVars PROVE SucceededIffCommitted'
  <2> USE <1>2
  <2>1. CASE QueueStep
    BY <2>1, QueueStepKeepsSuccess
    DEF CInv, SucceededIffCommitted, QueueStep, outboxVars
  <2>2. ASSUME NEW w \in Workers, CompleteWithEvent(w) PROVE SucceededIffCommitted'
    BY <2>2, CompleteWithEventStep
  <2>3. ASSUME NEW w \in Workers, CompleteWithEventRefused(w) PROVE SucceededIffCommitted'
    BY <2>3 DEF CompleteWithEventRefused, rows, outboxVars, CInv, SucceededIffCommitted
  <2>4. CASE OutboxStep
    BY <2>4, OutboxStepKeepsOutbox DEF CInv, SucceededIffCommitted
  <2>5. CASE TTick
    BY <2>5 DEF TTick, Tick, O!Tick, O!log, CInv, SucceededIffCommitted
  <2>6. CASE UNCHANGED allVars
    BY <2>6 DEF allVars, vars, rows, outboxVars, CInv, SucceededIffCommitted
  <2> QED BY <2>1, <2>2, <2>3, <2>4, <2>5, <2>6 DEF TNext
<1>3. TSpec => []TypeOK
  BY RunsTheQueue, TypeCorrect, PTL
<1> QED BY <1>1, <1>2, <1>3, PTL DEF TSpec, CInv

-----------------------------------------------------------------------------
(* What is told of is settled *)

\* A publisher holds and delivers nothing but rows of the outbox.
Drains(committed) ==
  [todo : SUBSET committed, item : committed \union {NoEvent}, sent : BOOLEAN, left : Int]

DrainInv == delivered \subseteq outbox /\ drain \in [Publishers -> Drains(outbox)]

\* A task that succeeded was leased, so that the tasks it depends on had succeeded.
SuccessIsClosed ==
  \A t \in Tasks : state[t] = "SUCCEEDED" => \A d \in Deps[t] : state[d] = "SUCCEEDED"

\* Publishers go on with what they leased; they lease rows of the outbox only.
LEMMA PublishKeepsDrainInv == ASSUME DrainInv, O!Publish PROVE DrainInv'
<1>1. PICK p \in Publishers : O!Lease(p) \/ O!Deliver(p) \/ O!Mark(p) \/ O!Abort(p)
  BY DEF O!Publish
<1>2. /\ drain[p] \in Drains(outbox) /\ drain \in [Publishers -> Drains(outbox)]
      /\ delivered \subseteq outbox
  BY DEF DrainInv
<1>3. O!Idle \in Drains(outbox)
  BY DEF O!Idle, Drains
<1>4. ASSUME NEW batch \in SUBSET Events, O!LeaseBatch(p, batch) PROVE DrainInv'
  <2>1. batch \subseteq outbox
    BY <1>4 DEF O!LeaseBatch, O!IsBatch, O!Leasable
  <2>2. /\ drain' = [drain EXCEPT ![p] = [O!Idle EXCEPT !.todo = batch, !.left = OutboxLease]]
        /\ outbox' = outbox /\ delivered' = delivered
    BY <1>4 DEF O!LeaseBatch, O!log
  <2>3. OutboxLease \in Int
    BY CompletionAssumption DEF CompletionAssumption
  <2>4. [O!Idle EXCEPT !.todo = batch, !.left = OutboxLease] \in Drains(outbox)
    BY <2>1, <2>3 DEF O!Idle, Drains
  <2> QED BY <1>2, <2>2, <2>4 DEF DrainInv
<1>5. ASSUME NEW e \in Events, O!StartDelivery(p, e) PROVE DrainInv'
  <2>1. /\ e \in drain[p].todo /\ outbox' = outbox /\ delivered' = delivered
        /\ drain' = [drain EXCEPT ![p] = [drain[p] EXCEPT !.todo = drain[p].todo \ {e},
                                                          !.item = e, !.sent = FALSE]]
    BY <1>2, <1>5 DEF O!StartDelivery, O!log, Drains
  <2>2. [drain[p] EXCEPT !.todo = drain[p].todo \ {e}, !.item = e, !.sent = FALSE]
          \in Drains(outbox)
    BY <1>2, <2>1 DEF Drains
  <2> QED BY <1>2, <2>1, <2>2 DEF DrainInv
<1>6. CASE O!EndDelivery(p)
  <2>1. /\ outbox' = outbox /\ delivered' = delivered \union {drain[p].item}
        /\ drain[p].item # NoEvent
        /\ drain' = [drain EXCEPT ![p] = [drain[p] EXCEPT !.sent = TRUE]]
    BY <1>2, <1>6 DEF O!EndDelivery, O!log, Drains
  <2>2. [drain[p] EXCEPT !.sent = TRUE] \in Drains(outbox) /\ drain[p].item \in outbox
    BY <1>2, <2>1 DEF Drains
  <2> QED BY <1>2, <2>1, <2>2 DEF DrainInv
<1>7. CASE O!MarkPublished(p)
  <2>1. /\ outbox' = outbox /\ delivered' = delivered
        /\ drain' = [drain EXCEPT ![p] =
                       IF drain[p].todo = {} THEN O!Idle
                       ELSE [drain[p] EXCEPT !.item = NoEvent, !.sent = FALSE]]
    BY <1>2, <1>7 DEF O!MarkPublished, O!log
  <2>2. [drain[p] EXCEPT !.item = NoEvent, !.sent = FALSE] \in Drains(outbox)
    BY <1>2 DEF Drains
  <2> QED BY <1>2, <1>3, <2>1, <2>2 DEF DrainInv
<1>8. CASE O!MarkRefused(p)
  BY <1>2, <1>3, <1>8 DEF O!MarkRefused, O!log, DrainInv
<1>9. CASE O!Abort(p)
  <2>1. /\ outbox' = outbox /\ drain' = [drain EXCEPT ![p] = O!Idle]
        /\ \/ delivered' = delivered
           \/ drain[p].item # NoEvent /\ delivered' = delivered \union {drain[p].item}
    BY <1>9 DEF O!Abort, O!log
  <2>2. drain[p].item # NoEvent => drain[p].item \in outbox
    BY <1>2 DEF Drains
  <2> QED BY <1>2, <1>3, <2>1, <2>2 DEF DrainInv
<1> QED BY <1>1, <1>4, <1>5, <1>6, <1>7, <1>8, <1>9 DEF O!Lease, O!Deliver, O!Mark

\* The other steps only add rows to the outbox, and time passes.
LEMMA StepKeepsDrainInv == ASSUME DrainInv, [TNext]_allVars PROVE DrainInv'
<1>1. CASE QueueStep
  BY <1>1 DEF QueueStep, outboxVars, DrainInv
<1>2. ASSUME NEW w \in Workers, CompleteWithEvent(w) PROVE DrainInv'
  <2>1. outbox \subseteq outbox' /\ drain' = drain /\ delivered' = delivered
    BY <1>2 DEF CompleteWithEvent, O!CommitWithOutbox
  <2>2. Drains(outbox) \subseteq Drains(outbox')
    BY <2>1 DEF Drains
  <2> QED BY <2>1, <2>2 DEF DrainInv
<1>3. ASSUME NEW w \in Workers, CompleteWithEventRefused(w) PROVE DrainInv'
  BY <1>3 DEF CompleteWithEventRefused, outboxVars, DrainInv
<1>4. CASE OutboxStep
  <2>1. ASSUME NEW e \in Events, O!AppendEvent(e) PROVE DrainInv'
    BY <2>1 DEF O!AppendEvent, DrainInv
  <2> QED BY <1>4, <2>1, PublishKeepsDrainInv DEF OutboxStep
<1>5. CASE TTick
  <2>1. /\ outbox' = outbox /\ delivered' = delivered
        /\ drain' = [p \in Publishers |-> [drain[p] EXCEPT !.left = O!Left(drain[p].left)]]
    BY <1>5 DEF TTick, O!Tick, O!log, DrainInv, Drains
  <2>2. ASSUME NEW p \in Publishers
        PROVE  [drain[p] EXCEPT !.left = O!Left(drain[p].left)] \in Drains(outbox)
    <3>1. drain[p] \in Drains(outbox)
      BY DEF DrainInv
    <3>2. O!Left(drain[p].left) \in Int
      BY <3>1 DEF Drains, O!Left
    <3> QED BY <3>1, <3>2 DEF Drains
  <2> QED BY <2>1, <2>2 DEF DrainInv
<1>6. CASE UNCHANGED allVars
  BY <1>6 DEF allVars, outboxVars, DrainInv
<1> QED BY <1>1, <1>2, <1>3, <1>4, <1>5, <1>6 DEF TNext

\* A worker completes a task whose row it owns, in the attempt that is current:
\* the row was leased for it, when everything the task depends on had succeeded.
LEMMA StepKeepsSuccessClosed ==
  ASSUME Inv, SuccessIsClosed, [TNext]_allVars PROVE SuccessIsClosed'
<1>0. TypeOK
  BY DEF Inv
<1>1. \A t \in Tasks : Deps[t] \subseteq Tasks
  BY QueueAssumption DEF QueueAssumption
<1>2. ASSUME \A t \in Tasks : state'[t] = "SUCCEEDED" <=> state[t] = "SUCCEEDED"
      PROVE  SuccessIsClosed'
  BY <1>1, <1>2 DEF SuccessIsClosed
<1>3. CASE QueueStep
  BY <1>0, <1>2, <1>3, QueueStepKeepsSuccess
<1>4. ASSUME NEW w \in Workers, CompleteWithEvent(w) PROVE SuccessIsClosed'
  <2> DEFINE t == job[w].task
  <2>1. /\ Busy(w) /\ leaseOwner[t] = w
        /\ state' = [state EXCEPT ![t] = "SUCCEEDED"]
    BY <1>4 DEF CompleteWithEvent, CompleteTask, OwnsTask
  <2>2. t \in Tasks /\ job[w].attempt \in Nat \ {0}
    BY <1>0, <2>1, BusyJob
  <2>3. job[w].attempt = attempt[t]
    BY <2>1 DEF Inv, LeaseInv, OwnerIsCurrentAttempt
  <2> HIDE DEF t
  <2>4. \A d \in Deps[t] : state[d] = "SUCCEEDED"
    BY <2>2, <2>3 DEF Inv, DependenciesFirst
  <2>5. state \in [Tasks -> TaskStates]
    BY <1>0 DEF TypeOK
  <2> QED BY <1>1, <2>1, <2>2, <2>4, <2>5 DEF SuccessIsClosed
<1>5. ASSUME NEW w \in Workers, CompleteWithEventRefused(w) PROVE SuccessIsClosed'
  BY <1>2, <1>5 DEF CompleteWithEventRefused, rows
<1>6. CASE OutboxStep
  BY <1>2, <1>6, OutboxStepKeepsOutbox
<1>7. CASE TTick
  BY <1>2, <1>7 DEF TTick, Tick
<1>8. CASE UNCHANGED allVars
  BY <1>2, <1>8 DEF allVars, vars, rows
<1> QED BY <1>3, <1>4, <1>5, <1>6, <1>7, <1>8 DEF TNext

\* The tasks that succeeded are closed under dependencies, and so hold the
\* ancestors of each of them.
LEMMA ToldIsSettledInv ==
  DrainInv /\ SuccessIsClosed /\ SucceededIffCommitted => ToldIsSettled
<1> SUFFICES ASSUME DrainInv, SuccessIsClosed, SucceededIffCommitted,
                    NEW t \in Tasks, CompletionOf[t] \in delivered,
                    NEW u \in Ancestors(t) \union {t}
             PROVE  state[u] = "SUCCEEDED" /\ CompletionOf[u] \in outbox
  BY DEF ToldIsSettled
<1> DEFINE S == {x \in Tasks : state[x] = "SUCCEEDED"}
<1>1. t \in S
  BY DEF DrainInv, SucceededIffCommitted
<1>2. Deps[t] \subseteq S /\ \A x \in S : Deps[x] \subseteq S
  BY <1>1, QueueAssumption DEF SuccessIsClosed, QueueAssumption
<1>3. S \in SUBSET Tasks
  OBVIOUS
<1>4. u \in S
  <2> HIDE DEF S
  <2> QED BY <1>1, <1>2, <1>3 DEF Ancestors
<1> QED BY <1>4 DEF SucceededIffCommitted

\* Whoever hears of a completion can rely on it: the task has succeeded, and so
\* has every task it depends on, directly or not.
THEOREM ToldIsSettledHolds == TSpec => []ToldIsSettled
<1>1. TInit => DrainInv /\ SuccessIsClosed
  <2> SUFFICES ASSUME TInit PROVE DrainInv /\ SuccessIsClosed
    OBVIOUS
  <2>1. O!Idle \in Drains(outbox)
    BY DEF O!Idle, Drains
  <2>2. DrainInv
    BY <2>1 DEF TInit, O!Init, DrainInv
  <2>3. SuccessIsClosed
    BY DEF TInit, Init, SuccessIsClosed
  <2> QED BY <2>2, <2>3
<1>2. Inv /\ DrainInv /\ SuccessIsClosed /\ [TNext]_allVars => DrainInv' /\ SuccessIsClosed'
  BY StepKeepsDrainInv, StepKeepsSuccessClosed
<1>3. TSpec => []Inv
  BY RunsTheQueue, Invariance, PTL
<1> QED BY <1>1, <1>2, <1>3, SucceededIffCommittedHolds, ToldIsSettledInv, PTL DEF TSpec

=============================================================================
