----------------------------- MODULE TaskQueue -----------------------------
(***************************************************************************)
(* The task queue of the Harness: the rows of `tasks` and `checkpoints`    *)
(* behind HarnessRepository (packages/harness/persistence/repository.py),  *)
(* the workers that lease them, and the heartbeat, checkpoint and recovery *)
(* services of packages/harness/recovery.py.                               *)
(*                                                                         *)
(* Every repository method runs under one asyncio lock (memory) or in one  *)
(* transaction (PostgreSQL) and is one action here.  What a worker knows   *)
(* between two calls is its own variable, because the repository may have  *)
(* moved on in the meantime.                                               *)
(*                                                                         *)
(* Time is kept relative to the present: leaseLeft[t] is lease_until - now *)
(* of task t, wait[t] is available_at - now and due[t] is deadline - now.  *)
(* Tick lets one unit of time pass.  No code compares a time that is       *)
(* further in the past than "before now", so a lease that has run out      *)
(* stays at -1 and the other two stay at 0.                                *)
(***************************************************************************)
EXTENDS Integers

CONSTANTS
  Runs,          \* run ids
  Tasks,         \* task ids
  Workers,       \* worker ids; each worker runs one task at a time
  NoWorker,      \* lease_owner of a task nobody leases
  NoJob,         \* what a worker without a task holds
  RunOf,         \* TaskRecord.run_id
  Deps,          \* TaskRecord.dependency_ids
  Rank,          \* position in ORDER BY priority DESC, created_at
  MaxAttempts,   \* TaskRecord.max_attempts
  Delay,         \* available_at - created_at
  Deadline,      \* deadline - created_at
  Forever,       \* a deadline further away than any behaviour goes
  LeaseSeconds,  \* lease_seconds of lease_next_task and HeartbeatService
  MaxStep        \* bound: the last step a worker checkpoints

ASSUME QueueAssumption ==
  /\ NoWorker \notin Workers
  /\ RunOf \in [Tasks -> Runs]
  /\ Deps \in [Tasks -> SUBSET Tasks]
  /\ Rank \in [Tasks -> Nat]
  /\ MaxAttempts \in [Tasks -> Nat \ {0}]
  /\ Delay \in [Tasks -> Nat]
  /\ Deadline \in [Tasks -> Nat]
  /\ Forever \in Nat \ {0}
  /\ LeaseSeconds \in Nat \ {0}
  /\ MaxStep \in Nat

VARIABLES
  runs,         \* run ids in the repository
  state,        \* TaskRecord.state, "ABSENT" before add_tasks
  attempt,      \* TaskRecord.attempt
  leaseOwner,   \* TaskRecord.lease_owner
  leaseLeft,    \* TaskRecord.lease_until - now
  wait,         \* TaskRecord.available_at - now
  due,          \* TaskRecord.deadline - now
  checkpoints,  \* attempt that wrote the checkpoint of (task, step), or 0
  job           \* the TaskRecord a worker took from lease_next_task

rows == <<runs, state, attempt, leaseOwner, leaseLeft>>
clock == <<wait, due>>
vars == <<rows, clock, checkpoints, job>>

Steps == 0..MaxStep

\* The states of TaskState that a repository operation reaches.
TaskStates == {"ABSENT", "PENDING", "LEASED", "WAITING_RETRY", "SUCCEEDED", "FAILED"}
Queued == {"PENDING", "WAITING_RETRY"}
Terminal == {"SUCCEEDED", "FAILED"}

\* What a worker remembers: the task and attempt it leased, the next step it
\* will run (-1 until it has read the latest checkpoint), and how long the
\* lease it last obtained still has to run.
Jobs == [task : Tasks, attempt : Nat \ {0}, next : -1..(MaxStep + 1),
         left : -1..LeaseSeconds]

ASSUME NoJobAssumption == NoJob \notin Jobs

Added(t) == state[t] # "ABSENT"
Busy(w) == job[w] # NoJob

-----------------------------------------------------------------------------
Init ==
  /\ runs = {}
  /\ state = [t \in Tasks |-> "ABSENT"]
  /\ attempt = [t \in Tasks |-> 0]
  /\ leaseOwner = [t \in Tasks |-> NoWorker]
  /\ leaseLeft = [t \in Tasks |-> 0]
  /\ wait = Delay
  /\ due = Deadline
  /\ checkpoints = [t \in Tasks |-> [s \in Steps |-> 0]]
  /\ job = [w \in Workers |-> NoJob]

CreateRun(r) ==
  /\ r \notin runs
  /\ runs' = runs \union {r}
  /\ UNCHANGED <<state, attempt, leaseOwner, leaseLeft, clock, checkpoints, job>>

\* Mutant of AddTasks: an upsert, which takes a task that is there already.
UpsertTasks(batch) ==
  /\ \A t \in batch : RunOf[t] \in runs /\ \A d \in Deps[t] : d \in batch \/ Added(d)
  /\ state' = [t \in Tasks |-> IF t \in batch THEN "PENDING" ELSE state[t]]
  /\ UNCHANGED <<runs, attempt, leaseOwner, leaseLeft, clock, checkpoints, job>>

\* add_tasks checks the whole batch before it stores any of it.
AddTasks(batch) ==
  /\ \A t \in batch :
       /\ ~ Added(t)
       /\ RunOf[t] \in runs
       /\ \A d \in Deps[t] : d \in batch \/ Added(d)
  /\ state' = [t \in Tasks |-> IF t \in batch THEN "PENDING" ELSE state[t]]
  /\ UNCHANGED <<runs, attempt, leaseOwner, leaseLeft, clock, checkpoints, job>>

-----------------------------------------------------------------------------
(* Leases *)

\* Mutant of DepsSucceeded: a dependency that failed is out of the way.
DepsEnded(t) == \A d \in Deps[t] : state[d] \in Terminal

DepsSucceeded(t) == \A d \in Deps[t] : state[d] = "SUCCEEDED"

\* Mutant of Claimable: rows never tried only.
NeverTried(t) ==
  /\ state[t] = "PENDING"
  /\ wait[t] = 0 /\ due[t] > 0 /\ DepsSucceeded(t)

\* The rows lease_next_task may choose from.
Claimable(t) ==
  /\ state[t] \in Queued
  /\ wait[t] = 0
  /\ due[t] > 0
  /\ leaseOwner[t] # NoWorker => leaseLeft[t] < 0
  /\ DepsSucceeded(t)

\* The first claimable row of the runs in scope; a tie may go either way.
Selected(t, scope) ==
  /\ Claimable(t)
  /\ RunOf[t] \in scope
  /\ \A u \in Tasks : Claimable(u) /\ RunOf[u] \in scope => Rank[t] <= Rank[u]

NextAttempt(t) == attempt[t] + 1

LeaseNextTask(w, t, scope) ==
  /\ ~ Busy(w)
  /\ Selected(t, scope)
  /\ state' = [state EXCEPT ![t] = "LEASED"]
  /\ attempt' = [attempt EXCEPT ![t] = NextAttempt(t)]
  /\ leaseOwner' = [leaseOwner EXCEPT ![t] = w]
  /\ leaseLeft' = [leaseLeft EXCEPT ![t] = LeaseSeconds]
  /\ job' = [job EXCEPT ![w] = [task |-> t, attempt |-> NextAttempt(t),
                                next |-> -1, left |-> LeaseSeconds]]
  /\ UNCHANGED <<runs, clock, checkpoints>>

\* The ownership test of complete_task: the name of the worker, not the attempt.
OwnsTask(w, t) == state[t] = "LEASED" /\ leaseOwner[t] = w

CompleteTask(w) ==
  /\ Busy(w)
  /\ job[w].next >= 0
  /\ OwnsTask(w, job[w].task)
  /\ state' = [state EXCEPT ![job[w].task] = "SUCCEEDED"]
  /\ leaseOwner' = [leaseOwner EXCEPT ![job[w].task] = NoWorker]
  /\ leaseLeft' = [leaseLeft EXCEPT ![job[w].task] = 0]
  /\ job' = [job EXCEPT ![w] = NoJob]
  /\ UNCHANGED <<runs, attempt, clock, checkpoints>>

\* complete_task raises "worker does not own the task lease".
CompleteRefused(w) ==
  /\ Busy(w)
  /\ job[w].next >= 0
  /\ ~ OwnsTask(w, job[w].task)
  /\ job' = [job EXCEPT ![w] = NoJob]
  /\ UNCHANGED <<rows, clock, checkpoints>>

\* heartbeat_task renews an owned lease that has not run out yet.
Renewable(w, t) == OwnsTask(w, t) /\ leaseLeft[t] > 0

Pulse(w) ==
  /\ Busy(w)
  /\ Renewable(w, job[w].task)
  /\ leaseLeft' = [leaseLeft EXCEPT ![job[w].task] = LeaseSeconds]
  /\ job' = [job EXCEPT ![w].left = LeaseSeconds]
  /\ UNCHANGED <<runs, state, attempt, leaseOwner, clock, checkpoints>>

\* pulse raises LeaseLostError and the worker lets go of the task.
PulseRefused(w) ==
  /\ Busy(w)
  /\ ~ Renewable(w, job[w].task)
  /\ job' = [job EXCEPT ![w] = NoJob]
  /\ UNCHANGED <<rows, clock, checkpoints>>

-----------------------------------------------------------------------------
(* Checkpoints *)

\* Mutant of IsResumeStep: without a checkpoint, as if step 0 were done.
IsStepAfterCursor(t, n) ==
  /\ \A s \in Steps : checkpoints[t][s] # 0 => s < n
  /\ n > 0 /\ (n > 1 => checkpoints[t][n - 1] # 0)

\* n is the step after the largest checkpointed step of t.
IsResumeStep(t, n) ==
  /\ \A s \in Steps : checkpoints[t][s] # 0 => s < n
  /\ n > 0 => checkpoints[t][n - 1] # 0

\* The worker reads latest_checkpoint after it has the lease.
ResumeCheckpoint(w) ==
  /\ Busy(w)
  /\ job[w].next = -1
  /\ \E n \in 0..(MaxStep + 1) :
       /\ IsResumeStep(job[w].task, n)
       /\ job' = [job EXCEPT ![w].next = n]
  /\ UNCHANGED <<rows, clock, checkpoints>>

\* save_checkpoint keeps a checkpoint that is there already and returns False;
\* CheckpointManager.save does not look at the answer.
StoredCheckpoint(t, s, a) == IF checkpoints[t][s] = 0 THEN a ELSE checkpoints[t][s]

SaveCheckpoint(w) ==
  /\ Busy(w)
  /\ job[w].next \in Steps
  /\ checkpoints' = [checkpoints EXCEPT ![job[w].task][job[w].next] =
                       StoredCheckpoint(job[w].task, job[w].next, job[w].attempt)]
  /\ job' = [job EXCEPT ![w].next = @ + 1]
  /\ UNCHANGED <<rows, clock>>

-----------------------------------------------------------------------------
(* Recovery, failure and time *)

\* Mutant of Expired: at the last instant of the lease.
RunsOut(t) == state[t] = "LEASED" /\ leaseLeft[t] <= 0

Expired(t) == state[t] = "LEASED" /\ leaseLeft[t] < 0

RecoveredState(t) == IF attempt[t] >= MaxAttempts[t] THEN "FAILED" ELSE "WAITING_RETRY"

\* One call releases every expired lease.
RecoverExpiredLeases ==
  /\ \E t \in Tasks : Expired(t)
  /\ state' = [t \in Tasks |-> IF Expired(t) THEN RecoveredState(t) ELSE state[t]]
  /\ leaseOwner' = [t \in Tasks |-> IF Expired(t) THEN NoWorker ELSE leaseOwner[t]]
  /\ leaseLeft' = [t \in Tasks |-> IF Expired(t) THEN 0 ELSE leaseLeft[t]]
  /\ UNCHANGED <<runs, attempt, clock, checkpoints, job>>

\* The process of a worker dies, or its operation raises: the repository has
\* no call that reports a failed attempt, so the lease is left to run out.
Abandon(w) ==
  /\ Busy(w)
  /\ job' = [job EXCEPT ![w] = NoJob]
  /\ UNCHANGED <<rows, clock, checkpoints>>

Left(n) == IF n < 0 THEN n ELSE n - 1
Until(n) == IF n \in {0, Forever} THEN n ELSE n - 1

Tick ==
  /\ leaseLeft' = [t \in Tasks |-> IF leaseOwner[t] = NoWorker THEN leaseLeft[t]
                                   ELSE Left(leaseLeft[t])]
  /\ wait' = [t \in Tasks |-> IF Added(t) THEN Until(wait[t]) ELSE wait[t]]
  /\ due' = [t \in Tasks |-> IF Added(t) THEN Until(due[t]) ELSE due[t]]
  /\ job' = [w \in Workers |-> IF Busy(w) THEN [job[w] EXCEPT !.left = Left(@)]
                               ELSE NoJob]
  /\ UNCHANGED <<runs, state, attempt, leaseOwner, checkpoints>>

-----------------------------------------------------------------------------
\* run_id = None looks at every run, otherwise at one.
Scopes == {runs} \union {{r} : r \in runs}

Lease(w) == \E scope \in Scopes, t \in Tasks : LeaseNextTask(w, t, scope)
Finish(w) == CompleteTask(w) \/ CompleteRefused(w)

Next ==
  \/ \E r \in Runs : CreateRun(r)
  \/ \E batch \in SUBSET Tasks \ {{}} : AddTasks(batch)
  \/ \E w \in Workers :
       \/ Lease(w)
       \/ ResumeCheckpoint(w)
       \/ SaveCheckpoint(w)
       \/ Pulse(w)
       \/ PulseRefused(w)
       \/ Finish(w)
       \/ Abandon(w)
  \/ RecoverExpiredLeases
  \/ Tick

Spec == Init /\ [][Next]_vars

-----------------------------------------------------------------------------
(* Type correctness *)

\* Every variable stays in its type: the columns of a row hold values of their
\* enums and ranges, and a worker holds either nothing or a well-formed lease.
TypeOK ==
  /\ runs \subseteq Runs
  /\ state \in [Tasks -> TaskStates]
  /\ attempt \in [Tasks -> Nat]
  /\ leaseOwner \in [Tasks -> Workers \union {NoWorker}]
  /\ leaseLeft \in [Tasks -> -1..LeaseSeconds]
  /\ wait \in [Tasks -> Nat]
  /\ due \in [Tasks -> Nat]
  /\ checkpoints \in [Tasks -> [Steps -> Nat]]
  /\ job \in [Workers -> Jobs \union {NoJob}]

-----------------------------------------------------------------------------
(* Safety *)

\* A row has an owner exactly while it is leased: no operation leaves a lease
\* behind on a queued or finished row, and none leases a row to nobody.
LeasedIffOwned == \A t \in Tasks : state[t] = "LEASED" <=> leaseOwner[t] # NoWorker

\* No task is ever started before all its dependencies have succeeded, however
\* often it or they are leased, lost and recovered (lease_next_task).
DependenciesFirst ==
  \A t \in Tasks : attempt[t] > 0 => \A d \in Deps[t] : state[d] = "SUCCEEDED"

\* A task is leased at most max_attempts times although lease_next_task never
\* looks at the budget: recovery alone keeps spent rows out of the queue, and
\* it fails a row only when the budget is spent.
AttemptBudget ==
  \A t \in Tasks :
    /\ attempt[t] <= MaxAttempts[t]
    /\ state[t] \in Queued => attempt[t] < MaxAttempts[t]
    /\ state[t] = "FAILED" => attempt[t] = MaxAttempts[t]

\* A worker whose lease has not run out by its own reckoning still owns the
\* task in the repository, in the attempt it leased: recovery and other workers
\* never disturb it (the strict comparison in recover_expired_leases).
LeaseHolderUndisturbed ==
  \A w \in Workers : Busy(w) /\ job[w].left >= 0 =>
    /\ OwnsTask(w, job[w].task)
    /\ job[w].attempt = attempt[job[w].task]

\* Two workers may hold the same task, one of them a straggler that has not
\* noticed the loss of its lease, but never in the same attempt.
OneWorkerPerAttempt ==
  \A v, w \in Workers : Busy(v) /\ Busy(w) /\ v # w =>
    job[v].task # job[w].task \/ job[v].attempt # job[w].attempt

\* The checkpoints of a task have no gap, so that the latest one stands for all
\* earlier steps, even when stragglers of lost attempts still save theirs.
CheckpointsContiguous ==
  \A t \in Tasks : \A s \in Steps : checkpoints[t][s] # 0 =>
    \A r \in Steps : r < s => checkpoints[t][r] # 0

\* A finished row is never touched again: no late completion, recovery or
\* lease reopens it, or changes how it ended.
TerminalIsFinal ==
  [][\A t \in Tasks : state[t] \in Terminal =>
       state'[t] = state[t] /\ attempt'[t] = attempt[t]]_vars

\* A task is completed by the attempt that is current, never by a straggler
\* whose lease was recovered and given to another attempt.
CurrentAttemptCompletes ==
  [][\A t \in Tasks : state[t] # "SUCCEEDED" /\ state'[t] = "SUCCEEDED" =>
       \E w \in Workers :
         /\ Busy(w) /\ job[w].task = t /\ job[w].attempt = attempt[t]
         /\ job'[w] = NoJob]_vars

-----------------------------------------------------------------------------
(* Refinement *)

PhaseOf ==
  [ABSENT |-> "unknown", PENDING |-> "waiting", WAITING_RETRY |-> "waiting",
   LEASED |-> "running", SUCCEEDED |-> "succeeded", FAILED |-> "failed"]

Phase == [t \in Tasks |-> PhaseOf[state[t]]]

Lifecycle == INSTANCE TaskLifecycle WITH phase <- Phase, tries <- attempt

\* The queue keeps the promise of TaskLifecycle: seen without leases, workers,
\* clocks and checkpoints, every step is one the lifecycle allows or no step.
ImplementsLifecycle == Lifecycle!Spec

-----------------------------------------------------------------------------
(* Liveness *)

\* The reaper polls, a worker that is free polls, and time passes.  Nothing is
\* assumed of a worker that has a task: its operation may never end, and its
\* heartbeat may go on or stop (run_until_stopped asks the operation nothing).
Fairness ==
  /\ WF_vars(Tick)
  /\ WF_vars(RecoverExpiredLeases)
  /\ \A w \in Workers : WF_vars(Lease(w))

FairSpec == Spec /\ Fairness

\* Every task t depends on, directly or not: the least set that holds Deps[t]
\* and the dependencies of its members.
Ancestors(t) ==
  {u \in Tasks : \A S \in SUBSET Tasks :
     Deps[t] \subseteq S /\ (\A x \in S : Deps[x] \subseteq S) => u \in S}

\* A row nobody will lease any more, although it has not ended: nothing moves
\* a queued row whose deadline has passed or whose dependency cannot succeed.
Missed(t) == state[t] \in Queued /\ due[t] = 0
Stranded(t) ==
  /\ state[t] \in Queued
  /\ Missed(t) \/ \E u \in Ancestors(t) : state[u] = "FAILED" \/ Missed(u)

\* A worker whose operation goes on keeps the lease of t, by its heartbeat.
HeldByWorker(t) == \E w \in Workers : Busy(w) /\ job[w].task = t /\ OwnsTask(w, t)

\* Every task that was added ends, unless its deadline passed in the queue or
\* one of its ancestors did not succeed: none is overlooked or starved, and a
\* worker that died, or hangs without a heartbeat, costs one attempt.  Two
\* behaviours are excepted.  For ever the same lease may be renewed beside an
\* operation that hangs, of the task or of one it waits for: nothing bounds
\* run_until_stopped (recovery.py).  And every worker may hang.
TasksSettle ==
  \A t \in Tasks :
    \/ [](~ Added(t))
    \/ <>(state[t] \in Terminal \/ Stranded(t))
    \/ <>[](\E u \in Ancestors(t) \union {t} : HeldByWorker(u))
    \/ <>[](\A w \in Workers : Busy(w))

=============================================================================
