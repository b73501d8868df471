# TLA+ models of the travel itinerary multi-agent system

This directory holds TLA+ specifications of the backend of this repository and
of the part of its web client that talks to it, TLC configurations that check them on small instances, and proofs
that the TLA+ proof system (TLAPS) checks for every instance. `PROJECT.json`
lists components, runs, mutants, findings, hazards and theorems, and maps each
definition to the lines it models.

Contents: 1 the system, 2 modules and how they correspond to the code, 3 runs
and bounds, 4 fairness, 5 theorems, 6 what is only model-checked, 7 what is not
modelled, 8 findings, 9 plan.

## 1. The system

A trip request goes through a coordinator, two research agents that work at the
same time, a route matrix, a planner and a critic; the critic may ask for
targeted repairs; a deterministic aggregator writes the final plan. Below the
agents lies the *Harness*: a durable task queue, checkpoints, an event log with
an outbox, a DAG scheduler, a versioned Blackboard, an agent loop, and gateways
to models and tools. Above them lie an API with a run service and a web client.

| Component | State it keeps | Operations | Interacts with | Hard behaviour | What makes it correct |
|---|---|---|---|---|---|
| Task queue (`harness/persistence/repository.py`) | runs, tasks with attempt, owner, lease and availability, checkpoints | create_run, add_tasks, lease_next_task, complete_task, heartbeat_task, recover_expired_leases, save/load checkpoint | workers, reaper, event log | leases that end while work goes on, stragglers of lost attempts, owner test without attempt test | one worker for an attempt, attempt budget, dependencies first, a lease without a heartbeat ends |
| Heartbeats, checkpoints, recovery (`harness/recovery.py`) | none | pulse, save, latest, recover_once | the queue | a reaper racing a heartbeat | a live lease is not recovered, steps of a task are contiguous |
| Event log and outbox (`repository.py`, `recovery.py`) | events by idempotency key, outbox rows with a lease | append_event_with_outbox, complete_task_with_event_outbox, lease_outbox_batch, mark_outbox_published, drain_once | the queue, publishers, an outside handler | crash between handler and mark, batch older than its lease, key conflict in a completion | one event for a key, at-least-once delivery, task and event change together |
| DAG scheduler (`harness/scheduler.py`) | pending nodes, outcomes, semaphore, cancellation token | run, cancel, attempts with timeout and retry delay | operations given by the caller | cancellation, timeout and end of an operation in one instant; slots held by a delay; escaping cancellation | order of dependencies, slots, attempts counted, an outcome for every node |
| Blackboard (`harness/blackboard.py`) | records by id, ids by slot and version, head version of a slot | write with an expected version, get, latest, lineage | all agents and the repair | concurrent writers with an old idea of the head | append-only log for each slot, closed and acyclic lineage |
| 1+4 workflow (`workflow/orchestrator.py`) | the progress of one call | run | Blackboard, five services | gather raises while a sibling goes on; several calls for one run | a result consists of one call's artifacts |
| Targeted repair (`workflow/repair.py`) | none; the caller carries rounds and plan | plan, resume_after_clarification, execute | Blackboard, handlers | head read after the handler, cached upstream references, failure in the middle of a round | exactly what a patch invalidates is rebuilt; no silent loss; two rounds |
| Final aggregation (`workflow/final_aggregator.py`) | none | aggregate, render | planning and review artifacts | tests again what the critic tested, with its own view of the evidence | what is published can be carried out; a PASS is final |
| Agent loop (`harness/agent.py`) | transcript, steps, tool calls, usage | run | model and tool gateways | two budgets that interact, a timeout in any await | every tool call answered before the next turn, one typed end |
| Tool gateway, registry (`harness/tool_gateway.py`, `tools/registry.py`) | registered handlers | register, execute | agent loop | order of allowlist, validation and timeout | no handler runs that is not allowed |
| Model routing, usage ledger (`models/routing.py`, `models/ledger.py`) | entries, one counter per budgeted gateway | generate, record_model | all agents of a run at the same time | three limits in one fallback loop; a budget that is decided after the turn was paid | the policy's limits and order; every overrun reported; usage covered by entries |
| Model adapters and profiles (`models/adapters.py`, `models/profiles.py`) | none | translation of provider JSON, chain of candidates | routing | what of a malformed answer is an error, and of which kind | classification of failures |
| HTTP provider (`tools/http_provider.py`) | rate slot, cache, failure count, open time | request_json | all travel tools | late results against the circuit, retries and cancelled callers in one slot sequence | spacing of requests, the circuit opens for a reason, answers are fresh |
| MCP adapter (`tools/mcp_adapter.py`) | process, request counter, pipe | discover, call, close | a child process | a late answer after a timeout, a dead process | an answer belongs to its request |
| Travel tools (`tools/amap.py`, `weather.py`, `routes.py`, `travel_stubs.py`) | none | geocode, search, route, matrix, forecast | HTTP provider | a matrix is a sequence of requests of which any may fail | no partial matrix, every tool ends |
| Domain contracts, validators (`domain/*.py`) | none | pure checks | everybody | boundaries of dates, sums and windows | see the agents and the aggregation |
| Agents (`agents/*.py`) | none | coordination, research, planning, criticism | workflow | selection and timetable, routing of patches | the optimizer keeps what nobody validates; the critic's verdict matches the plans |
| Trip run API (`apps/api/run_service.py`) | runs with versions, idempotency keys | create, cancel, clarify, replan, restore, delete | web client, other callers | operations on ended runs, keys used again | one run for a key, versions and history agree |
| Model settings API, CLIs | none between calls | list, switch | adapters | - | - |
| Web client (`apps/web/src`) | session, displayed result | submit, replan, restore, effects | API | answers lost or overtaking one another | what is changed is what was displayed |
| Evaluation, observability, security, schema | none | measurement, redaction, DDL | - | - | - |

All backend concurrency is asyncio: control changes only at an `await`. In
memory the repository and the Blackboard hold one `asyncio.Lock` for a whole
method; with PostgreSQL a method is one transaction with row locks. Either way a
method is one atomic step and the models take it as one action, while what
happens between two methods (a handler, a service, a sleep) is where the steps
of others come in.

## 2. Modules

| Module | Models |
|---|---|
| `TaskLifecycle` | abstract: what a task queue promises about a task (waiting, running, ended; tries) |
| `TaskQueue` | repository rows, workers, heartbeats, checkpoints, reaper, time |
| `Outbox` | events, outbox rows, publishers in drain_once, handlers that are slow, fail or die with their process |
| `TaskEvents` | `TaskQueue` with `Outbox`: complete_task_with_event_outbox |
| `DagScheduler` | one `DagScheduler.run` with its coroutines |
| `ArtifactLog` | abstract: every slot is an append-only log of artifacts |
| `Blackboard`, `BlackboardLineage` | the artifact store; the recursive walk of lineage |
| `OnePlusFour` | calls of `OnePlusFourWorkflow.run` |
| `TargetedRepair` | `TargetedRepairController` and the sessions that use it |
| `TripWorkflow` | `OnePlusFour` and `TargetedRepair` on one `Blackboard` |
| `ModelAdapters` | what the three adapters make of a provider's answer |
| `UsageLedger` | `ModelPrice.estimate` and `UsageLedger` |
| `ModelRouting` | `RoutedModelGateway.generate`, candidates of a profile |
| `AgentLoop` | `BaseAgent.run` over router, budgeted gateways, adapters and tools |
| `HttpProvider` | `ResilientHttpProvider` with several callers |
| `TravelTools` | the tools that use it |
| `McpStdio` | `StdioMcpTransport` and `McpAdapter` with their clients and a server process |
| `TripRuns` | `InMemoryTripRunService` |
| `RunClients` | tabs of the web client and other callers of `TripRuns` |
| `PlanContracts` | cross-field rules of the domain contracts |
| `PlanValidation` | `validate_itinerary`: six validators |
| `PlanOptimizer` | `DeterministicItineraryOptimizer.solve` |
| `PlanReview` | `DeterministicCritic.review` and the tests of `FinalAggregator` |
| `TripPlanning` | one trip through planning, review, repair and aggregation |
| `ServiceProofs` | theorems about `Outbox` and `RunClients` |
| `SumTheorems` | lemmas on sums over finite sets, recursions over 0..n and extremes |
| `*Proofs` otherwise | theorems about the module they are named after and those it is made of |
| `MC*` | small instances for TLC |

A definition that starts with "Mutant of" in its comment is not part of a
specification: it is a plausible wrong version of the definition it stands
before, used to see that a property notices the mistake. `PROJECT.json` pairs
each property with one.

### TaskQueue

State: `runs`, and for each task `state`, `attempt`, `leaseOwner`, `leaseLeft`
(lease_until - now), `wait` (available_at - now), `due` (deadline - now),
`checkpoints` (for every step the attempt that wrote it) and, outside the
repository, `job`: the TaskRecord a worker got when it leased the row, the next
step it will save and what it believes to be left of its lease.

* Time is relative and `Tick` lets one unit pass. Past instants need no
  distinction beyond "before now", so the state space is finite without a bound
  on time. All comparisons keep their exact form: at lease_until = now a lease is
  neither renewed nor recovered.
* `CreateRun`, `AddTasks`, `LeaseNextTask` (with its scope, order and
  dependency test), `CompleteTask`/`CompleteRefused`, `Pulse`/`PulseRefused`,
  `ResumeCheckpoint`, `SaveCheckpoint`, `RecoverExpiredLeases` are the methods.
  The states the repository never assigns (RUNNING, WAITING_TOOL, VALIDATING...)
  do not appear.
* The repository has no worker loop. Workers are modelled from the protocol of
  its methods: lease, resume, save steps, complete, at any time; `Abandon` is a
  crash, a lost worker or a LeaseLostError. A worker that lost its lease is not
  told and goes on as a straggler. Worker ids are distinct and a worker runs one
  task at a time; sharing an id would defeat the owner test by design.
* `Forever` stands for a deadline no behaviour reaches; `MaxStep` bounds the
  steps of a task.

`ImplementsLifecycle` is the refinement of `TaskLifecycle`, which knows
neither leases nor workers: a task is started at most MaxAttempts times, after
the tasks it depends on have succeeded, and ends once.

### Outbox and TaskEvents

`Outbox` has `stored` (events, unique by idempotency key), `rows` (outbox),
`published`, the row leases and, for every publisher, `drain`: the rest of the
batch it read, the row whose handler is running or has returned, and what is
left of its lease. `AppendEvent` is an event without outbox row,
`CommitWithOutbox` one with it. `LeaseBatch`, `StartDelivery`, `EndDelivery`,
`MarkPublished`, `MarkRefused` (LeaseLostError, which drops the rest of the
batch) and `Abort` (handler error, crash) are the steps of drain_once. A delivery
has no bound on its time; `delivered` remembers what reached the outside.
`MaxFaults` bounds the faults: aborts, and deliveries that outlast the lease.

`TaskEvents` replaces the plain completion of the queue by
`CompleteWithEvent`, which changes the task row, the event log and the outbox in
one step, and `CompleteWithEventRefused`, when the key is taken or the lease
lost. Both clocks tick together. `ToldIsSettled` relates both ends: a completion
that a handler has heard of is that of a task which succeeded after all it was
derived from, whoever crashed in between. That the composition still is a
TaskQueue is proved and not run.

### DagScheduler

`pending`, `outcome`, `token` and `run` (where the loop of `run` is) mirror the
locals of the method; `phase`, `attempt`, `signal` are the place of the
coroutine of each node: waiting for the semaphore, before the cancellation
check, in the operation, being stopped, in the retry delay. `started` counts
calls of the operation, to compare attempts with. Several of operation end,
timeout and cancellation may be done when asyncio.wait returns: `signal` is set
by whichever came, and a node that is stopped may still end by itself. The
semaphore is a number of slots; its FIFO order is abstracted to any order.
`Escape` is a CancelledError raised by the operation itself, which leaves
`gather` while the siblings go on. Priorities order the start within a wave
only and are abstracted with the order of acquisition.

### Blackboard

`record`, `logical` and `head` are `_records`, `_logical` and `_heads`. A writer
comes with any version, parents and expected version, since it decided on them
earlier; a refused write changes nothing. `MaxVersion` bounds versions.
Payloads and their hash are left out. `ImplementsLog` is the refinement of
`ArtifactLog`. `Visit` is the recursive function inside lineage as a function from
an artifact and the list so far to the list after the visit; the list is also the
visited set. Parents are visited in any one order.

### TripWorkflow

`OnePlusFour` keeps for every call and task where the coroutine is. A service is
awaited without a bound; `Publish` is the write of version 1 with the inputs as
parents, `PublishRefused` a taken slot or id, `ServiceFails` an exception or an
answer for another run. `Fail` ends the call and leaves the other research task
working, as `gather` does. The id of a route matrix is the literal of
orchestrator.py:188, so only one call on one Blackboard can ever publish one:
another call, also of another run, ends at the route matrix. The first
versions make a second call for one run fail in any case.

`TargetedRepair` splits execute at its awaits: `CallHandler` (references are
put together), `HandlerReturns` (the head is read and compared),
`WriteVersion`/`WriteRefused`, so that another session may act in between.
`RepairFails` is every other way out. A session is a user of the controller: it
plans for a review (`Reviews` lists the sets of agents a review asks), waits for
the user when the coordinator is among them, and carries the number of rounds,
as the signature of plan demands. Handlers come from outside. The tests number
the new artifact from what was known when the repair began; `HandlerLooks` lets
them read the head when they are called instead.

### AgentLoop with ModelAdapters, ModelRouting and UsageLedger

An execution (`exec`) holds the locals of `BaseAgent._run_bounded` at an await:
waiting for a provider or for a tool. Everything between two awaits is one
step, composed of functions that follow the code: `Receive` (the turn),
`Request` (the budget of tool calls), `NextCall` (allowlist, registry,
validation, in this order), `NextStep`. A call in the router is `route`: the
attempts so far and where the loops stand. The chain is the one docs/11
describes: a routed gateway over one budgeted gateway per candidate, each over an
adapter, all on one ledger.

* A provider answers with anything in `Replies`: an HTTP status, or a body whose
  calls, texts and counters may be malformed. `Outcome` is what the adapter makes
  of it, a turn, a failure with a kind, or an exception that is no failure
  (`AnswerEscapes`).
* `TurnRecorded` is the step of BudgetedModelGateway: number, price, entry,
  decision. `TurnNotRecorded` is the ValueError of a missing price or of an entry
  whose id is taken; it is not a provider failure, so the router does not catch it.
* `Midnight` moves the day of the daily scope; `LastDay` bounds it.
* The timeout of `run` may strike in any await (`TimesOut`).

A total of the ledger (`RunTotal`, `AgentTotal`, `DayTotal`) is the sum of the
costs of the entries whose positions it selects.

Left out: messages (only their number of answers), prompts, currencies, latency.

### HttpProvider and TravelTools

Times are what is left until they come (slot, back-off, cache entry, circuit,
request under way), so that no clock is kept; `seen` is history that only
properties read. `Begin` covers a cache hit, a refusal by the circuit and the
reservation of a slot; `Proceed` the steps at which an await ends. A timer that
has run out is served before the clock goes on: asyncio calls what is ready
before it waits again. A circuit that has recovered lets every caller through.
`CancelCall` is the timeout of an agent: the slot stays reserved.
`TravelTools` gives each caller a tool: a single request, a forecast that falls
back to fixture data on a ProviderHttpError (an open circuit is one too), or a
matrix, one request after the other. A body that reports an error of the provider is an
answer for the provider, is cached, and is an error for the tool.

### McpStdio

`Request`, `Acquire`, `Start`, `ReadLine`, `ReadEnd` and `Abandon` are the awaits
of StdioMcpTransport.request around its lock; the server answers the requests in
its pipe in order, may write a line of its own or die. Whoever gives up while
reading leaves an answer behind (`stray`), after which every answer is off by
one and is refused by its id: the code never gets back in step, as it neither
discards old ids nor restarts the process. A process that died is not started
again either; both are as modelled. `Discover` follows the pages up to
`PageLimit`.

### TripRuns and RunClients

A route has no await, so a request is served in one step. A bundle is the
sequence of instructions it was made with. `Create` with the same key returns the
run of the key or a conflict; `Delete` forgets the key; `Restore` changes the
result without looking at the state of the run. `RunClients` adds tabs: requests
(`sent`) and answers (`answers`) are sets, served and taken in any order or
lost. `TakeResult` and its siblings take every answer as the newest, as the
effects and promises of App.tsx and ReplanningPanel.tsx do. `OtherCaller` acts on the
service at any time. The buttons that the client disables are guards.
`MaxOpen` and `MaxClarified` are bounds.

### PlanContracts, PlanValidation, PlanOptimizer, PlanReview, TripPlanning

Time is in hours, a date is the number of a day, and a weekday is a date. A
place is known by one name. Start and end of an activity carry an offset of their
own in the code; an item therefore has `start` and `end`, the instants on the
clock of the trip's timezone, and `clock`, what a clock of that offset shows. Order,
overlaps and durations go by the instants, as comparisons of aware datetimes do;
dates, window and opening hours by `clock`, as date() and time() do
(validators.py:207, 216, 287). The optimizer writes both alike, a model's draft
need not (`ahead` of a visit, one for each end). The trip's own offset is taken as
constant: no clock change falls into a trip. Validators are sets of error codes; warnings,
locations, scores and freshness are left out. In `PlanOptimizer` a selection of
places is admissible when it satisfies the constraints given to the solver;
`Selections` are the best ones, as the solver may return any optimum. The buckets
of _partition are a recursion over the appointments (`BookedBuckets`) and one
over the places that are left (`FilledBuckets`). Partition,
order of routes, opening period, appointment and timetable follow
itinerary_planning.py line by line. `Solve` makes the three variants or fails.
Sorting by start in validate_overlaps is the relation `ComesAfter` of neighbours.

`TripPlanning` starts from an answer of the researching agents (facts of several
kinds of quality), plans with the optimizer or with a draft of the planner's
model (`Draft`: any of `Drafts` that the contract accepts), reviews with the
critic or with a pass of its model (`WaveThrough`), repairs (`Repair` renews what
the patches address and everything built from it) and aggregates or refuses.
The coordinator's own decision is not part of it.

## 3. Runs

| Run | Instance | Shows |
|---|---|---|
| `queue` | 2 workers, 2 runs, a chain of 2 tasks in one batch, the dependent one with better rank; 3 and 2 attempts; availability delay 1; deadline 6; lease 2; steps 0..1 | a lease in use is left alone, checkpoints without gaps, the refinement of `TaskLifecycle`, `TasksSettle` |
| `outbox` | 2 publishers, 3 events of which 2 share a key, delay 1, lease 2, batch 2, 3 faults | at-least-once delivery, exclusive leases, every row published |
| `events` | 2 workers, 1 publisher, chain of 2 tasks (2 and 1 attempts), a stray event that may take the key of the second completion | row and event agree, what is told is settled, success is told although workers may stop |
| `dag` | 5 nodes: a root, three children, a join; two nodes with 2 attempts; 2 slots | order, complete results, termination |
| `dag_deadlock` (violation) | chain of 3 | the "impossible" RuntimeError is reached |
| `blackboard` | 3 slots in 2 runs, 4 ids, 3 versions | lineage, append-only log |
| `trip` | 2 calls and 2 sessions on one run, 1 round each, two kinds of review: one names planner and critic, the other the mobility agent and the coordinator, which asks the user | whose artifacts a result has; what a round rebuilds; no silent loss of an update; everything ends |
| `agents` | 2 agents of one run, chains of 3 candidates of which one lacks an API key; 6 kinds of answers; 3 total attempts; 2 steps; 2 tool calls; limits that one turn of an agent, two of the run and three of a day just reach; one midnight | budgets, costs, attempts, tool calls, termination |
| `run_clients` | a tab and other callers, 2 run ids, 1 key, 1 instruction, 2 open calls | keys, history, the plan a user changes |
| `tools` | either 2 callers of one provider, 2 attempts, threshold 2, a matrix of 2 pairs; or 3 clients of one MCP server, 2 pages, 6 requests | circuit, cache, spacing, matrices, answers, termination |
| `planning` | 3 places, 7 requests of 1 or 2 days, 7 research artifacts, 3 mobility artifacts, 5 matrices, drafts of up to 2 visits a day by clocks from 13 hours behind to 9 ahead, 1 round | what is published is complete, affordable and keeps window, hours and order by the clocks it is written by; the optimizer keeps the hard constraints; optimizer, critic and aggregator agree |
| `planning_forged` (violation) | the facts of `planning`; one request with a required place and an appointment; one draft that has neither, written in UTC | that draft is published, outside the window as well |

Why the bounds are enough. Two workers (publishers, sessions, calls, agents,
callers) give every pair of an owner and a straggler, or of a waiting and a late
request; three add no new kind of pair because no method compares more than a
caller with a row. A lease of 2 has an inside, the instant of expiry and an
outside. Two attempts give a retry and an exhausted budget, the third of `first` a
straggler two attempts behind. The dependent task may be looked at before, during
and after its dependency. Two versions are needed for a conflict and a third for
a gap; the repair instance has room for one version more than the limit allows, so
that a broken limit shows. Two routing failures of different kinds in a chain of
three reach retry, fallback and exhaustion; three total attempts are fewer than
the chain has. A threshold of 2 with 2 callers lets the second failure come from
either, late or not. MCP needs one abandoned request, one that reads its answer
and one that waits for the lock. A tab with two open calls has an answer that
another may overtake. Three places on two days leave a day with one and a day with
two, a gap that a route must fill, and a place more than fits; the facts have each
kind of fault once. The theorems below remove the bounds for all of the safety
properties.

`CHECK_DEADLOCK FALSE` is set where the modelled system ends on its own: artifact
ids run out (`blackboard`), calls and sessions end (`trip`), executions end
(`agents`), a trip ends (`planning`), and no key is left (`run_clients`).
`MCSymmetry` is used in `run_clients`, which has only safety properties and in
which run ids are interchangeable. All other runs check deadlock. In `tools` the
two profiles share no state and are one run only because they ask the same
question, whether a shared connection answers each of its users.

## 4. Fairness

Liveness is checked under fairness only of steps the scheduling of the code makes
sure of; it is weak except for two steps of `TravelTools`.

* `TaskQueue`: time passes; a reaper polls (recover_once is called
  called periodically, `RecoverExpiredLeases`); a worker without a task keeps
  asking for one (`Lease`). Nothing makes a worker that holds a task go on: it may crash
  (`Abandon`), work for ever or hang, and its heartbeat may renew the lease beside it
  without bound, as run_until_stopped does. `TasksSettle` therefore names what keeps a
  task from its end: from some time on there is always a worker at work that owns the
  task or an ancestor of it; all workers are at work for ever; or nobody
  will ever lease the row (`Stranded`), as the code has no step for a queued row
  behind a missed deadline or a failed dependency.
* `Outbox`: time passes; publishers poll, handlers return, marks are made.
  Crashes and overruns are bounded by `MaxFaults`, since an outbox whose
  publishers always die publishes nothing.
* `TaskEvents`: time passes and the publishers go on; workers and reaper may stop
  at any point, as a completion that is committed must be told without them.
* `DagScheduler`: asyncio runs coroutines that can go on (`Loop`, `NodeStep`),
  and operations end or honour their cancellation (`OperationStep`). Cancel has
  none.
* `TripWorkflow`: services and handlers return or raise. Nobody is obliged to
  plan or to answer a question.
* `AgentLoop`: an await ends with an answer, a failure or the timeout of the
  execution (`AwaitEnds`); midnight need not come.
* `TravelTools`: a caller goes on when it can, time passes when nobody is due
  (`Tick`), and an await whose time has come ends (`Proceed`). The last two are
  strongly fair, since callers that start and are cancelled at the same
  instant could disable them again and again, while an event loop serves the
  callbacks that are ready in the order in which they became so.

## 5. Theorems

Eight modules hold theorems about every part that is modelled, with proofs
that TLAPS checks to the last leaf, for all values of the constants that satisfy
the assumptions of the module. The assumptions are types of the constants, an
acyclic dependency relation for `DagScheduler` (its constructor checks that),
distinct null values, for `TripWorkflow` that the slots and ids in use are among
`Slots` and `Artifacts`, for `AgentLoop` that a reply has the shape of what
HTTP and JSON can deliver (`RepliesAssumption`), prices are not negative
(ModelPrice checks that) and executions are finitely many, and for `TripPlanning`
that requests, places, routes and claims are valid documents of
`PlanContracts` and that research and routes satisfy the contracts of their artifacts
(no id twice, references within the artifact): the contracts refuse others when they
are constructed. Types of
variables are part of each inductive invariant.
Every inductive invariant was checked by TLC on the instance of its run before it
was proved.

* `TaskQueueProofs`. The invariants of a row are not inductive, because a worker
  acts on what it remembers. `JobInv` says that a job never runs ahead of its
  row: its attempt is at most the row's, it counts the same time while its
  lease lasts, and the steps before its next one are stored.
  `OwnerIsCurrentAttempt` says that the worker named by a row holds the
  row's present attempt: this is why the methods may test the name of the owner
  and not the attempt. With them: `DependenciesFirst`, `AttemptBudget`,
  `LeaseHolderUndisturbed`, `OneWorkerPerAttempt`, `CheckpointsContiguous`,
  `TerminalIsFinal`, `CurrentAttemptCompletes`, and `ImplementsLifecycle`. The
  last part is about `TaskEvents`: every step of the composition is a step of the
  queue (a refused completion is, for the queue, a worker that gave up), so all
  that is proved of the queue holds of it; `SucceededIffCommitted`; and
  `ToldIsSettled`, for which what publishers hold, have delivered or marked must be
  in the outbox (`Drains`), and successes must be closed under dependencies
  (`SuccessIsClosed`, which a taken key or a dead worker could break).
* `DagSchedulerProofs`. For each node the invariant says what the phase of its
  coroutine tells about pending, outcome, attempt and started (`Counted`,
  `Placed`, `Justified`), and for the loop what its place tells about the
  phases (`LoopInv`). It yields `StartsAfterDependencies`, `AttemptsAccounted`,
  `ReturnsComplete`, `CancelledForReason`, `OutcomeIsFinal`, `SlotsBounded`.
* `TripWorkflowProofs`. It begins with the `Blackboard` by itself, of which four state
  invariants are inductive together: `VersionsAgree` shows that a write overwrites
  nothing, `LineageClosed` that no stored artifact has the new one as a parent,
  which keeps `LineageAcyclic`. Then `PublishedIsImmutable` and the refinement of
  `ArtifactLog`. `LineageIsTopological` adds that finitely many artifacts are stored.
  A visit is defined for more and more artifacts, each after its parents
  (`OneMore`), until none is left; there is no other solution of the recursion,
  because it would differ at an artifact whose parents it visits alike
  (`VisitIs`); and from parents to children each visit keeps the order of the list
  and adds exactly the ancestors (`VisitAdds`), among which nothing finds itself
  (`NotOwnAncestor`).

  `RefinesBlackboard`: calls and sessions only do what the
  Blackboard allows to any writer, so all of this holds of trips. That
  step needs the types of what a session carries from one await to the next
  (`RepairTypeOK`), and these need that a lookup of an existing version finds a
  stored artifact (`VersionsAgree`). `ResultIsOneCall` needs in addition that a
  task works only after its inputs were delivered (`CallIInv`) and that nobody
  changes what was delivered.

  The later parts are about sessions of repair. `RoundsInv` says
  what a session has on the Blackboard at any moment: its complete rounds, and of
  the present one the tasks before the next in TASK_ORDER, each with the session's
  own new versions among its parents. With the closure being what is downstream of
  its seeds, it yields `RepairsExactlyDownstream`. `SerialInv` is why nothing is
  lost unnoticed. Every plan ends with a review, and a review is only written over
  the version known when the session planned, so that of rounds that overlap at
  most one completes. While a session may still be that one (`Live`), what it has
  published is the latest there is and was built from the latest there is, but for
  tasks that another unfinished session has touched (`LivesInv`); and what is stale
  has been touched by a session that is at work or has failed (`FreshInv`). It
  yields `StaleOnlyIfReported` for handlers that number their artifact after what
  the plan knew, `~ HandlerLooks`. The hypothesis is needed: with HandlerLooks =
  TRUE, TLC finds the property violated within seconds (section 8).
* `AgentLoopProofs`. `LoopInv`: the calls answered and pending are the calls
  counted, and nothing is pending when a model is asked. `RouteInv`: the attempts
  that ended are in the order of the candidates, none of which was left before it
  was used up, and the attempt under way is the next one (`UnderWay`: its number
  counts the attempts of its candidate, the total all). `BudgetInv`: what an
  execution reports is what the ledger exceeded at one of the entries up to the
  last one it received; appends of others come later and change no prefix. They
  yield `CallsAnswered`, `RouteFollowsPolicy` and `OverrunIsReported`. `UsageInv`,
  that what the executions of an agent report is covered by its entries, is
  inductive by the lemmas on sums: an entry adds its cost to the total of its
  agent and of no other, and at most as much to the usage of one execution. It
  yields `UsageIsPaidFor`.
* `ServiceProofs`, two parts without state in common. On `Outbox`: `DrainInv` ties a
  publisher to its rows: what it holds is in
  the outbox, a handler that returned has delivered, and within the lease it owns
  every row it still has to mark. It yields `PublishedWasDelivered`,
  `BatchUndisturbed`, `ExclusiveWithinLease`, `PublishedIsFinal`. On `RunClients`: the
  service has an invariant of its own: `KeysInv`, every
  stored run has one key and every key in use a stored run, and `RunsInv`, the
  history of each run. It yields `OneKeyPerRun`, `HistoryIsConsistent` and
  `VersionsArePermanent`. With the invariant of the clients (`ClientInv`), that
  each view on display, in a request or in an answer is one of a version its run
  still has, it yields `ReplanBuildsOnDisplay`. Run ids are not used again
  (`IdAssumption`, for uuid4).
* `ToolsProofs`. For the provider: failures counted are failures seen
  (`CircuitInv`), an entry of the cache is never older than a request takes plus
  what of its time has passed (`CacheInv`), and callers in the queue are an
  interval apart from one another, the next slot and the last request
  (`SpacingInv`); with them `OpensAfterFailuresInARow`, `AnswersAreFresh`,
  `SendsAreSpaced`. For the tools: the routes collected are those of the first
  pairs (`MatrixInv`); with it `MatrixIsWhole`. For MCP: one client holds the
  lock and, while no line is stray, pipe and process have nothing but its request
  or its answer (`McpInv`); with it `AnswerIsOwn` and `MismatchOnlyAfterStray`.
* `SumTheorems`. The sums of the community modules are recursive functions over
  finite sets, a recursion of TLA+ is a CHOOSE, and induction theorems
  with an operator as parameter cannot be used. So induction is stated over sets: a
  set of naturals has a least element (`NatMin`), hence what holds of a finite set
  when it holds of its smaller subsets holds of all of them (`SetInduction`: take a
  subset without the property that has the fewest elements). With it, the equation of a
  recursion over 0..n (`Recursion`) and of a sum (`SumUnfold`, `SumUnique`,
  `SumExists`) has exactly one solution, and sums can be taken apart (`SumRemove`,
  `SumUnion`), compared (`SumMonotone`), moved along a bijection (`SumReindex`) and
  added (`SumAdd`).
* `TripPlanningProofs`. The inductive invariant `PlanInv` is small, since a trip has few
  steps: plans, verdict and bundle are what the last planning, review and
  aggregation made of the present facts. What takes the room is what
  the operators of planning make of any valid facts.
  `BundleIsFeasible`: an aggregator that refuses nothing has seen no error of the
  validators; from two activities that overlap, neighbours in the order of starts are
  found that overlap, so comparing neighbours is enough because activities take
  time. Activities of two days are apart when one clock puts each on its date; when
  each has a clock of its own they may overlap, and the property says so. Window and
  hours hold by the clock of the item, and for the optimizer, whose items are
  written by the trip's, of the instants (`VariantIsInTime`). For the optimizer, the proof follows
  its plans from selection to buckets (every selected place in one bucket, exactly
  once, by induction over the appointments and the places), to the walk through a
  bucket (an order of all of it, connected by routes), to the timetable (each
  visit starts after the one before and the route between them, by induction over
  the visits of a day) and to the document (its items are the selected places, so
  that sums over activities are sums over the selection). It yields
  `OptimizerKeepsHardRules`; `StrategiesDeliver`, comparing optima of
  different weights over one set of selections; and `ReviewFindsOnlyUnseen`, where each
  validator is shown to find nothing in such a plan. `PassIsFinal` compares
  the tests of critic and aggregator one by one and needs the dates the optimizer
  gives to the days.

Several of these are proved and no longer part of a run, which is what a theorem
is for: the type invariants, `DependenciesFirst`, `AttemptBudget`,
`OneWorkerPerAttempt`, `TerminalIsFinal`, `CurrentAttemptCompletes`,
`BatchUndisturbed`, `PublishedIsFinal`, `SlotsBounded`, `AttemptsAccounted`,
`CancelledForReason`, `OutcomeIsFinal`, `VersionsAgree`, `LineageClosed`,
`LineageAcyclic`, `PublishedIsImmutable`. Each was checked by TLC on the instances
above before it was proved, and the refinements that the runs do check
(`ImplementsLifecycle`, `ImplementsLog`) fail when most of them fail.

## 6. Only model-checked

* Every liveness property, as fairness and ENABLED are beyond the prover:
  `TasksSettle`, `EveryRowPublished`, `SuccessIsPublished`, `RunEnds`,
  `WorkSettles`, `ExecutionsEnd`, `ToolsEnd`.
* `StaleOnlyIfReported` does not hold of handlers that look up the version
  themselves (sections 5 and 8); for the others it is proved.

## 7. Not modelled

The components marked not_modelled in `PROJECT.json`, each with its reason, and
what the notes of the partly modelled ones name: the streamable HTTP transport of
MCP (one session id, no sharing), audit records of tools, the conversion of
schemas, the fields of provider protocols, forms and rendering, the coordinator's
decision. In the modelled ones: payloads, hashes and wording; the difference
between the memory and the PostgreSQL implementation where their transitions
agree; the spans and clock values of a trace; priorities of the scheduler.
Observability, redaction, evaluation and the settings API change no state of the
system; the schema's uniqueness constraints appear as guards. Rows that depend on
one another in a cycle are legal for add_tasks and wait for ever; the instances
have none. Smaller things that no property looks at: reviews whose patches name
no registered agent (repair.py:118), a notification's own turn with the lock and
lines longer than 64 KiB in the stdio transport, a replanning panel that is
mounted anew while it is busy, the single phases of an HTTP timeout.

## 8. Findings

Each is a run whose property is a sentence of the repository and fails.

1. `dag_deadlock`: a failed node with a grandchild makes `run` raise the deadlock
   error it calls impossible, instead of cancelling the grandchild.
2. `planning_forged`: the design says that a plan which violates a hard constraint
   is blocked even with a forged PASS. Required and excluded places and fixed
   appointments are hard constraints, and neither the validators nor critic or
   aggregator read them; only the optimizer keeps them, and the planner's model
   may write plans of its own. In the run the request requires the garden and has an
   appointment in the museum; the plan that is published visits neither.
3. The same run: the daily window is a "local-time window" (trip_request.py:76)
   and a hard constraint too, but is compared with the clock of the item's own
   offset, which nobody compares with the trip's timezone. The visit that is
   published is from 10 to 13 in UTC, 18 to 21 where the trip is, and the window
   ends at 17. The same holds of the opening hours.

Seen while modelling, without a run of their own:

* The durable core. docs/02:802 says that an expired lease can be claimed
  directly; lease_next_task never claims a LEASED row, so the reaper is needed.
  CheckpointManager.save returns the caller's record although the step was saved
  by a straggler and this one is dropped. A handler that outlasts the lease of its
  batch runs at the same time as that of the next publisher, which "without
  concurrent duplicate delivery" (recovery.py:105) does not allow. run_until_stopped renews a lease beside a
  hung operation for as long as nobody stops it, so that such a task is never
  recovered.
* Repair. Overlapping repairs whose handlers look up the version of their artifact
  can end without an error with a latest review of a plan that is not the latest:
  the upstream references of a round are cached and only the version of the
  written slot is compared. With handlers that number their artifact from what
  they knew at the start the conflict is always reported, which `trip` checks.
* Models. The budgeted gateways of two candidates number their entries
  independently under the same name, so after a fallback the ledger may refuse
  a good answer, and the agent fails with model_error although candidates are left.
* Tools. An abandoned MCP read puts the pipe out of step until the process is
  replaced, and nothing replaces it. Error reports that arrive with status 200 are
  cached. The forecast falls back on ProviderHttpError only.
* Client. A late result of the run before may be displayed under a new session
  (`ReplanBuildsOnDisplay` leaves it out by name), and a lost answer to a
  creation leaves a run that the client cannot reach, since the key is new on
  every submission.
* Planning. Only the opening period of a day that is listed first is used. `balanced` takes every
  place the budget allows, so the whole solve fails where fewer places would fit.
  Appointments are scheduled in the order of the list, not by time. Two
  appointments on one day can leave another day empty, which is a validation
  error of the contract and no PlanningInfeasibleError. Patches for the planner
  run the same deterministic planner again. The critic does not compare dates, so
  that a plan it passes can be refused as incomplete. Quoted costs are not
  compared with the price of the place.

## 9. Plan

Done: the models, and proofs of every safety property the runs check. What would
come next are the parts that are modelled partly: the streamable HTTP transport of
MCP, the translation of provider fields, and the forms of the web client.
