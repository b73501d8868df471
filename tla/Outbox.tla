------------------------------- MODULE Outbox -------------------------------
(***************************************************************************)
(* The transactional outbox of the Harness: the rows of `events` and       *)
(* `outbox_events` behind HarnessRepository                                *)
(* (packages/harness/persistence/repository.py) and the OutboxPublisher    *)
(* that drains them (packages/harness/recovery.py).                        *)
(*                                                                         *)
(* The repository operations are atomic; drain_once is not: it leases a    *)
(* batch, and for every row of the batch awaits the handler and then marks *)
(* the row.  A publisher keeps its place in the batch in `drain`.  The     *)
(* handler delivers the event to the outside world; `delivered` records    *)
(* the events it delivered at least once.                                  *)
(*                                                                         *)
(* Times are relative to now as in TaskQueue.                              *)
(***************************************************************************)
EXTENDS Integers, FiniteSets

CONSTANTS
  Events,        \* event ids; the outbox row of an event has its id
  KeyOf,         \* (run_id, idempotency_key) of an event
  Rank,          \* position in ORDER BY created_at, outbox_id
  Delay,         \* available_at - created_at
  Publishers,    \* publisher ids; each drains one batch at a time
  NoPublisher,   \* lease_owner of a row nobody leases
  NoEvent,       \* what a publisher between two deliveries handles
  LeaseSeconds,  \* OutboxPublisher.lease_seconds
  Limit,         \* limit of drain_once
  MaxFaults      \* bound: crashes, handler errors and overrun leases

ASSUME OutboxAssumption ==
  /\ Rank \in [Events -> Nat]
  /\ Delay \in [Events -> Nat]
  /\ NoPublisher \notin Publishers
  /\ NoEvent \notin Events
  /\ LeaseSeconds \in Nat \ {0}
  /\ Limit \in Nat \ {0}
  /\ MaxFaults \in Nat

VARIABLES
  stored,      \* the events in `events`
  rows,        \* the events with a row in `outbox_events`
  leaseOwner,  \* OutboxRecord.lease_owner
  leaseLeft,   \* OutboxRecord.lease_until - now
  wait,        \* OutboxRecord.available_at - now
  published,   \* the rows with published_at set
  drain,       \* where each publisher is in drain_once
  delivered,   \* the events some handler has delivered
  faults       \* faults so far

log == <<stored, rows>>
lease == <<leaseOwner, leaseLeft, published>>
vars == <<log, lease, wait, drain, delivered, faults>>

\* todo: leased rows not handled yet; item: the row in the handler; sent: the
\* handler of item has returned; left: what the publisher's lease still has.
Idle == [todo |-> {}, item |-> NoEvent, sent |-> FALSE, left |-> -1]

Draining(p) == drain[p].todo # {} \/ drain[p].item # NoEvent

Init ==
  /\ stored = {}
  /\ rows = {}
  /\ leaseOwner = [e \in Events |-> NoPublisher]
  /\ leaseLeft = [e \in Events |-> 0]
  /\ wait = Delay
  /\ published = {}
  /\ drain = [p \in Publishers |-> Idle]
  /\ delivered = {}
  /\ faults = 0

-----------------------------------------------------------------------------
(* Committing events *)

\* No event with this idempotency key was committed for the run.
Fresh(e) == \A f \in stored : KeyOf[f] # KeyOf[e]

\* append_event; for a key that is taken it returns False and stores nothing.
AppendEvent(e) ==
  /\ Fresh(e)
  /\ stored' = stored \union {e}
  /\ UNCHANGED <<rows, lease, wait, drain, delivered, faults>>

\* append_event_with_outbox, and the event half of
\* complete_task_with_event_outbox: both rows or none.
CommitWithOutbox(e) ==
  /\ Fresh(e)
  /\ stored' = stored \union {e}
  /\ rows' = rows \union {e}
  /\ UNCHANGED <<lease, wait, drain, delivered, faults>>

-----------------------------------------------------------------------------
(* drain_once *)

\* Mutants of Leasable: whatever its lease; never again once it was leased.
Unpublished(e) == e \in rows \ published /\ wait[e] = 0
NeverLeased(e) == Unpublished(e) /\ leaseOwner[e] = NoPublisher

Leasable(e) ==
  /\ e \in rows \ published
  /\ wait[e] = 0
  /\ leaseOwner[e] # NoPublisher => leaseLeft[e] < 0

\* The oldest Limit rows that may be leased.
IsBatch(batch) ==
  /\ \A e \in batch : Leasable(e)
  /\ Cardinality(batch) <= Limit
  /\ \A e \in Events \ batch : Leasable(e) =>
       /\ Cardinality(batch) = Limit
       /\ \A f \in batch : Rank[f] <= Rank[e]

\* lease_outbox; UPDATE .. RETURNING gives the batch in no particular order.
LeaseBatch(p, batch) ==
  /\ ~ Draining(p)
  /\ IsBatch(batch)
  /\ leaseOwner' = [e \in Events |-> IF e \in batch THEN p ELSE leaseOwner[e]]
  /\ leaseLeft' = [e \in Events |-> IF e \in batch THEN LeaseSeconds ELSE leaseLeft[e]]
  /\ drain' = [drain EXCEPT ![p] = [Idle EXCEPT !.todo = batch, !.left = LeaseSeconds]]
  /\ UNCHANGED <<log, wait, published, delivered, faults>>

\* The handler is called with the record the batch holds.
StartDelivery(p, e) ==
  /\ drain[p].item = NoEvent
  /\ e \in drain[p].todo
  /\ drain' = [drain EXCEPT ![p].todo = @ \ {e}, ![p].item = e, ![p].sent = FALSE]
  /\ UNCHANGED <<log, lease, wait, delivered, faults>>

\* The handler has delivered the event and returns.
EndDelivery(p) ==
  /\ drain[p].item # NoEvent
  /\ ~ drain[p].sent
  /\ delivered' = delivered \union {drain[p].item}
  /\ drain' = [drain EXCEPT ![p].sent = TRUE]
  /\ UNCHANGED <<log, lease, wait, faults>>

\* Mutant of Handled: the row is marked before the handler has returned.
Started(p) == drain[p].item # NoEvent

Handled(p) == drain[p].item # NoEvent /\ drain[p].sent

\* The ownership test of mark_outbox_published.
OwnsRow(p, e) == leaseOwner[e] = p /\ e \notin published

MarkPublished(p) ==
  /\ Handled(p)
  /\ OwnsRow(p, drain[p].item)
  /\ published' = published \union {drain[p].item}
  /\ leaseOwner' = [leaseOwner EXCEPT ![drain[p].item] = NoPublisher]
  /\ leaseLeft' = [leaseLeft EXCEPT ![drain[p].item] = 0]
  /\ drain' = [drain EXCEPT ![p] =
                 IF @.todo = {} THEN Idle ELSE [@ EXCEPT !.item = NoEvent, !.sent = FALSE]]
  /\ UNCHANGED <<log, wait, delivered, faults>>

\* mark_outbox_published returns False: LeaseLostError ends the whole batch.
MarkRefused(p) ==
  /\ Handled(p)
  /\ ~ OwnsRow(p, drain[p].item)
  /\ drain' = [drain EXCEPT ![p] = Idle]
  /\ UNCHANGED <<log, lease, wait, delivered, faults>>

-----------------------------------------------------------------------------
(* Failure and time *)

\* The process dies, or the handler raises, which ends the batch as well; the
\* handler may or may not have delivered the event by then.
Abort(p) ==
  /\ Draining(p)
  /\ faults < MaxFaults
  /\ drain' = [drain EXCEPT ![p] = Idle]
  /\ \/ delivered' = delivered
     \/ drain[p].item # NoEvent /\ delivered' = delivered \union {drain[p].item}
  /\ faults' = faults + 1
  /\ UNCHANGED <<log, lease, wait>>

Left(n) == IF n < 0 THEN n ELSE n - 1

\* Handlers may be slow: a batch that takes longer than its lease is a fault.
Overrun == \E p \in Publishers : Draining(p) /\ drain[p].left = 0

Tick ==
  /\ Overrun => faults < MaxFaults
  /\ faults' = IF Overrun THEN faults + 1 ELSE faults
  /\ leaseLeft' = [e \in Events |-> IF leaseOwner[e] = NoPublisher THEN leaseLeft[e]
                                    ELSE Left(leaseLeft[e])]
  /\ wait' = [e \in Events |-> IF e \in rows /\ wait[e] > 0 THEN wait[e] - 1 ELSE wait[e]]
  /\ drain' = [p \in Publishers |-> [drain[p] EXCEPT !.left = Left(@)]]
  /\ UNCHANGED <<log, leaseOwner, published, delivered>>

-----------------------------------------------------------------------------
Lease(p) == \E batch \in SUBSET Events \ {{}} : LeaseBatch(p, batch)
Deliver(p) == (\E e \in Events : StartDelivery(p, e)) \/ EndDelivery(p)
Mark(p) == MarkPublished(p) \/ MarkRefused(p)

Publish == \E p \in Publishers : Lease(p) \/ Deliver(p) \/ Mark(p) \/ Abort(p)

Next ==
  \/ \E e \in Events : AppendEvent(e) \/ CommitWithOutbox(e)
  \/ Publish
  \/ Tick

Spec == Init /\ [][Next]_vars

-----------------------------------------------------------------------------
(* Safety *)

\* Every variable stays in its type.
TypeOK ==
  /\ stored \subseteq Events /\ rows \subseteq Events
  /\ leaseOwner \in [Events -> Publishers \union {NoPublisher}]
  /\ leaseLeft \in [Events -> -1..LeaseSeconds]
  /\ wait \in [Events -> Nat]
  /\ published \subseteq Events /\ delivered \subseteq Events
  /\ drain \in [Publishers -> [todo : SUBSET Events, item : Events \union {NoEvent},
                               sent : BOOLEAN, left : -1..LeaseSeconds]]
  /\ faults \in 0..MaxFaults

\* At least once: a row is marked only after a handler delivered its event,
\* whoever crashed, overran or took over in between.
PublishedWasDelivered == published \subseteq delivered \intersect rows

\* A publisher whose lease has not run out by its own reckoning still owns
\* every row of its batch that it has not marked, and nobody published them.
BatchUndisturbed ==
  \A p \in Publishers : Draining(p) /\ drain[p].left >= 0 =>
    \A e \in drain[p].todo \union ({drain[p].item} \ {NoEvent}) : OwnsRow(p, e)

\* Two publishers are never in the handler of one event within their leases.
ExclusiveWithinLease ==
  \A p, q \in Publishers :
    p # q /\ drain[p].item = drain[q].item /\ drain[p].item # NoEvent =>
      drain[p].left < 0 \/ drain[q].left < 0

\* published_at is written once: no straggler marks a row again or frees it.
PublishedIsFinal ==
  [][published \subseteq published' /\ \A e \in published : leaseOwner'[e] = NoPublisher]_vars

-----------------------------------------------------------------------------
(* Liveness *)

\* Publishers poll and the calls they make return; time passes.
Fairness ==
  /\ WF_vars(Tick)
  /\ \A p \in Publishers : WF_vars(Lease(p)) /\ WF_vars(Deliver(p)) /\ WF_vars(Mark(p))

FairSpec == Spec /\ Fairness

\* Every committed row is published once the faults are over: a row a publisher
\* lost by a crash or an overrun is leased again.
EveryRowPublished == \A e \in Events : e \in rows ~> e \in published

=============================================================================
