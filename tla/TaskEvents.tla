----------------------------- MODULE TaskEvents -----------------------------
(***************************************************************************)
(* The task queue and the outbox in one repository: a worker ends its task *)
(* with complete_task_with_event_outbox, which completes the row, appends  *)
(* the event and adds the outbox row in one transaction, and publishers    *)
(* deliver the event later.  Other calls may append events as well, also   *)
(* under the idempotency key of a completion.                              *)
(***************************************************************************)
EXTENDS TaskQueue

CONSTANTS
  CompletionOf,  \* the event a worker commits when it completes a task
  Events, KeyOf, EventRank, EventDelay, Publishers, NoPublisher, NoEvent,
  OutboxLease, Limit, MaxFaults  \* the constants of Outbox

VARIABLES events, outbox, rowOwner, rowLeft, rowWait, published, drain, delivered, faults

outboxVars ==
  <<events, outbox, rowOwner, rowLeft, rowWait, published, drain, delivered, faults>>

O == INSTANCE Outbox WITH
       Rank <- EventRank, Delay <- EventDelay, LeaseSeconds <- OutboxLease,
       stored <- events, rows <- outbox,
       leaseOwner <- rowOwner, leaseLeft <- rowLeft, wait <- rowWait

ASSUME CompletionAssumption ==
  /\ CompletionOf \in [Tasks -> Events]
  /\ \A t, u \in Tasks : CompletionOf[t] = CompletionOf[u] => t = u
  /\ OutboxLease \in Nat \ {0}

Completions == {CompletionOf[t] : t \in Tasks}

allVars == <<vars, outboxVars>>

TInit == Init /\ O!Init

\* Mutant of CompleteWithEvent: the event is appended without its outbox row.
CompleteWithEventOnly(w) ==
  /\ CompleteTask(w)
  /\ O!AppendEvent(CompletionOf[job[w].task])

\* Row, event and outbox row change together or not at all.
CompleteWithEvent(w) ==
  /\ CompleteTask(w)
  /\ O!CommitWithOutbox(CompletionOf[job[w].task])

\* Mutant of CompleteWithEventRefused: the row is completed before the check
\* of the idempotency key raises.
CompletedButRefused(w) ==
  /\ CompleteTask(w)
  /\ ~ O!Fresh(CompletionOf[job[w].task])
  /\ UNCHANGED outboxVars

\* "worker does not own the task lease" or "event idempotency key already
\* exists": nothing is stored and the worker lets go of the task.
CompleteWithEventRefused(w) ==
  /\ Busy(w)
  /\ job[w].next >= 0
  /\ \/ ~ OwnsTask(w, job[w].task)
     \/ ~ O!Fresh(CompletionOf[job[w].task])
  /\ job' = [job EXCEPT ![w] = NoJob]
  /\ UNCHANGED <<rows, clock, checkpoints, outboxVars>>

\* Every other operation of the queue leaves events and outbox alone.
QueueStep ==
  /\ \/ \E r \in Runs : CreateRun(r)
     \/ \E batch \in SUBSET Tasks \ {{}} : AddTasks(batch)
     \/ \E w \in Workers :
          \/ Lease(w) \/ ResumeCheckpoint(w) \/ SaveCheckpoint(w)
          \/ Pulse(w) \/ PulseRefused(w) \/ Abandon(w)
     \/ RecoverExpiredLeases
  /\ UNCHANGED outboxVars

OutboxStep ==
  /\ \/ \E e \in Events \ Completions : O!AppendEvent(e)
     \/ O!Publish
  /\ UNCHANGED vars

TTick == Tick /\ O!Tick

TNext ==
  \/ QueueStep
  \/ \E w \in Workers : CompleteWithEvent(w) \/ CompleteWithEventRefused(w)
  \/ OutboxStep
  \/ TTick

TSpec == TInit /\ [][TNext]_allVars

-----------------------------------------------------------------------------
\* A task has succeeded exactly if its completion event is in the outbox:
\* whatever crashes, expires or collides, neither half is committed alone.
SucceededIffCommitted ==
  \A t \in Tasks : state[t] = "SUCCEEDED" <=> CompletionOf[t] \in outbox

\* Whoever hears of a completion can rely on it, however late, however often
\* and by whichever publisher it is told: the task has succeeded, so has every
\* task it depends on, directly or not, and their completions will be told too.
ToldIsSettled ==
  \A t \in Tasks : CompletionOf[t] \in delivered =>
    \A u \in Ancestors(t) \union {t} :
      state[u] = "SUCCEEDED" /\ CompletionOf[u] \in outbox

-----------------------------------------------------------------------------
\* Publishers poll, the calls they make return, and time passes; workers and
\* the reaper may stop.
TFairness ==
  /\ WF_allVars(TTick)
  /\ \A p \in Publishers :
       WF_allVars((O!Lease(p) \/ O!Deliver(p) \/ O!Mark(p)) /\ UNCHANGED vars)

TFairSpec == TSpec /\ TFairness

\* Every success is told to the outside world: once the row is completed no
\* crash of a worker or publisher can lose its event.
SuccessIsPublished ==
  \A t \in Tasks : state[t] = "SUCCEEDED" ~> CompletionOf[t] \in published

=============================================================================
